---- MODULE Spec2Model ----
(***************************************************************************)
(* Model of the SQL dictionary driver of lib-dict-backend (dict-sql.c):    *)
(* the map matcher, the value codec, the WHERE builder and the transaction *)
(* staging buffers (prev_set / prev_inc) with commit and rollback.         *)
(*                                                                         *)
(* C strings are sequences of one-character strings, so that the matcher   *)
(* walks them character by character as the code does.  SQL text is a      *)
(* sequence of tokens; a bound parameter is a record of its value_type and  *)
(* its value_str / value_int64.                                            *)
(***************************************************************************)
EXTENDS Integers, Sequences, FiniteSets, TLC

\* ------------------------------------------------------------------------
\* Bounds of the model
\* ------------------------------------------------------------------------

\* Number of set / atomic_inc / unset calls made on one transaction.
MaxCalls == 3

\* Largest affected-row count the backend reports for one UPDATE.
MaxRows == 1

\* ------------------------------------------------------------------------
\* Strings
\* ------------------------------------------------------------------------

\* DICT_PATH_SHARED and DICT_PATH_PRIVATE of lib-dict: the first byte tells
\* the path class.
DICT_PATH_SHARED == <<"s", "h", "a", "r", "e", "d", "/">>

DICT_PATH_PRIVATE == <<"p", "r", "i", "v", "/">>

\* strchr(s + from, c): index of the first c at or after position from,
\* 0 for NULL.
strchr(s, from, c) ==
    IF \E i \in from..Len(s) : s[i] = c
    THEN CHOOSE i \in from..Len(s) :
            s[i] = c /\ \A j \in from..(i - 1) : s[j] # c
    ELSE 0

\* The tail of s starting at position from (a char pointer into s).
StrFrom(s, from) == SubSeq(s, from, Len(s))

Digits == <<"0", "1", "2", "3", "4", "5", "6", "7", "8", "9">>

IsDigit(c) == \E d \in 1..10 : Digits[d] = c

DigitValue(c) == (CHOOSE d \in 1..10 : Digits[d] = c) - 1

RECURSIVE DecimalValue(_)
DecimalValue(s) ==
    IF s = <<>> THEN 0
    ELSE DecimalValue(SubSeq(s, 1, Len(s) - 1)) * 10 + DigitValue(s[Len(s)])

\* str_to_int64(): an optional '-', then one or more digits, in the range of
\* a signed 64-bit integer (every string of at most 18 digits is; longer ones
\* are not drawn).  Result: [ret |-> 0 | -1, num].
str_to_int64(s) ==
    LET neg == s # <<>> /\ s[1] = "-"
        body == IF neg THEN Tail(s) ELSE s
    IN  IF body = <<>> \/ \E i \in 1..Len(body) : ~IsDigit(body[i])
        THEN [ret |-> -1, num |-> 0]
        ELSE IF Len(body) > 18
        THEN [ret |-> -1, num |-> 0]
        ELSE [ret |-> 0,
              num |-> IF neg THEN 0 - DecimalValue(body)
                      ELSE DecimalValue(body)]

\* ------------------------------------------------------------------------
\* Configuration: dict->set->maps, in configured order
\* ------------------------------------------------------------------------

NoField == "NULL"

Field(name, type) == [name |-> name, value_type |-> type]

\* struct dict_sql_map.  value_field is the comma-joined column list, kept
\* as the sequence of its comma-separated segments.
Map(pattern, table, fields, value_field, value_types, username_field, expire_field) ==
    [pattern |-> pattern, table |-> table, pattern_fields |-> fields,
     value_field |-> value_field, value_types |-> value_types,
     values_count |-> Len(value_types),
     username_field |-> username_field, expire_field |-> expire_field]

Maps ==
    << Map(DICT_PATH_SHARED \o <<"q", "/", "$", "/", "b">>, "quota",
           <<Field("uid", "INT")>>, <<"bytes">>, <<"INT">>,
           "username", NoField),
       Map(DICT_PATH_SHARED \o <<"q", "/", "$", "/", "c">>, "quota",
           <<Field("uid", "INT")>>, <<"count">>, <<"STRING">>,
           "username", "expire"),
       Map(DICT_PATH_PRIVATE \o <<"q", "/", "$", "/", "b">>, "quota",
           <<Field("uid", "INT")>>, <<"bytes">>, <<"INT">>,
           "username", NoField),
       Map(DICT_PATH_PRIVATE \o <<"q", "/", "$", "/", "c">>, "quota",
           <<Field("uid", "INT")>>, <<"count">>, <<"STRING">>,
           "owner", NoField) >>

\* ------------------------------------------------------------------------
\* Map matcher
\* ------------------------------------------------------------------------

\* The while loop of dict_sql_map_match.  pat and path are 1-based
\* positions; position Len+1 is the terminating NUL.  returned tells
\* whether the loop left through a return statement.
RECURSIVE map_match_loop(_, _, _, _, _, _)
map_match_loop(pattern, path, pat, pos, values, partial_ok) ==
    IF pat > Len(pattern) \/ pos > Len(path)
    THEN [returned |-> FALSE, ret |-> FALSE, pat |-> pat, pos |-> pos,
          values |-> values]
    ELSE IF pattern[pat] = "$"
    THEN IF pat + 1 > Len(pattern)
         THEN \* pattern ended with this variable
              IF partial_ok
              THEN [returned |-> TRUE, ret |-> TRUE, pat |-> pat,
                    pos |-> pos,
                    values |-> Append(values,
                        IF path[Len(path)] = "/"
                        THEN SubSeq(path, pos, Len(path) - 1)
                        ELSE StrFrom(path, pos))]
              ELSE [returned |-> TRUE, ret |-> TRUE, pat |-> pat + 1,
                    pos |-> Len(path) + 1,
                    values |-> Append(values, StrFrom(path, pos))]
         ELSE LET p == strchr(path, pos, "/")
              IN  IF p # 0
                  THEN map_match_loop(pattern, path, pat + 1, p,
                           Append(values, SubSeq(path, pos, p - 1)),
                           partial_ok)
                  ELSE map_match_loop(pattern, path, pat + 2,
                           Len(path) + 1,
                           Append(values, StrFrom(path, pos)), partial_ok)
    ELSE IF pattern[pat] = path[pos]
    THEN map_match_loop(pattern, path, pat + 1, pos + 1, values, partial_ok)
    ELSE [returned |-> TRUE, ret |-> FALSE, pat |-> pat, pos |-> pos,
          values |-> values]

\* Mutation of dict_sql_map_match: a partial match is accepted with any
\* unread pattern tail whether recursing or not.
dict_sql_map_match_any_tail(map, path, partial_ok, recurse) ==
    LET pattern == map.pattern
        l == map_match_loop(pattern, path, 1, 1, <<>>, partial_ok)
        out(r) == [ret |-> r, values |-> l.values, pat_len |-> l.pat - 1,
                   path_len |-> l.pos - 1]
    IN  IF l.returned THEN out(l.ret)
        ELSE IF l.pat > Len(pattern) THEN out(l.pos > Len(path))
        ELSE IF ~partial_ok THEN out(FALSE)
        ELSE IF l.pat # 1 /\ pattern[l.pat - 1] # "/" THEN out(FALSE)
        ELSE out(TRUE)

\* dict_sql_map_match: [ret, values, pat_len, path_len].
dict_sql_map_match(map, path, partial_ok, recurse) ==
    LET pattern == map.pattern
        l == map_match_loop(pattern, path, 1, 1, <<>>, partial_ok)
        out(r) == [ret |-> r, values |-> l.values, pat_len |-> l.pat - 1,
                   path_len |-> l.pos - 1]
    IN  IF l.returned THEN out(l.ret)
        ELSE IF l.pat > Len(pattern) THEN out(l.pos > Len(path))
        ELSE IF ~partial_ok THEN out(FALSE)
        ELSE IF l.pat # 1 /\ pattern[l.pat - 1] # "/" THEN out(FALSE)
        ELSE IF recurse THEN out(TRUE)
        ELSE out(pattern[l.pat] = "$" /\ strchr(pattern, l.pat, "/") = 0)

\* Mutation of sql_dict_find_map: the last matching map wins.
sql_dict_find_map_last(maps, path) ==
    LET hit(i) == dict_sql_map_match(maps[i], path, FALSE, FALSE).ret
    IN  IF \E i \in 1..Len(maps) : hit(i)
        THEN LET i == CHOOSE k \in 1..Len(maps) :
                          hit(k) /\ \A j \in (k + 1)..Len(maps) : ~hit(j)
             IN  [map |-> i,
                  values |-> dict_sql_map_match(maps[i], path, FALSE,
                                                FALSE).values]
        ELSE [map |-> 0, values |-> <<>>]

\* sql_dict_find_map: [map |-> index into maps (0 for NULL), values].
sql_dict_find_map(maps, path) ==
    LET hit(i) == dict_sql_map_match(maps[i], path, FALSE, FALSE).ret
    IN  IF \E i \in 1..Len(maps) : hit(i)
        THEN LET i == CHOOSE k \in 1..Len(maps) :
                          hit(k) /\ \A j \in 1..(k - 1) : ~hit(j)
             IN  [map |-> i,
                  values |-> dict_sql_map_match(maps[i], path, FALSE,
                                                FALSE).values]
        ELSE [map |-> 0, values |-> <<>>]

\* ------------------------------------------------------------------------
\* Value codec
\* ------------------------------------------------------------------------

\* struct sql_dict_param, with the fields the value types of the configured
\* maps use (value_str for STRING, value_int64 for INT and UINT).
Param(type, str, int64) ==
    [value_type |-> type, value_str |-> str, value_int64 |-> int64]

NoParam == Param("NONE", <<>>, 0)

\* sql_dict_value_get: encodes value (with value_suffix appended) for a
\* column of value_type.  [ret, param, error]; error is the message.
sql_dict_value_get(map, value_type, field_name, value, value_suffix) ==
    LET n == str_to_int64(value)
        fail(what) == [ret |-> -1, param |-> NoParam, error |-> what]
    IN  CASE value_type = "STRING" ->
               [ret |-> 0,
                param |-> Param("STRING", value \o value_suffix, 0),
                error |-> ""]
          [] value_type = "INT" ->
               IF value_suffix # <<>> \/ n.ret < 0
               THEN fail("field's value isn't 64bit signed integer")
               ELSE [ret |-> 0, param |-> Param("INT", <<>>, n.num),
                     error |-> ""]
          [] value_type = "UINT" ->
               IF value_suffix # <<>> \/ (value # <<>> /\ value[1] = "-")
                  \/ n.ret < 0
               THEN fail("field's value isn't 64bit unsigned integer")
               ELSE [ret |-> 0, param |-> Param("UINT", <<>>, n.num),
                     error |-> ""]

\* sql_dict_field_get_value
sql_dict_field_get_value(map, field, value, value_suffix) ==
    sql_dict_value_get(map, field.value_type, field.name, value,
                       value_suffix)

\* ------------------------------------------------------------------------
\* WHERE builder
\* ------------------------------------------------------------------------

\* What a query builder hands back: its return value, the query text and
\* parameter list as far as written, and *error_r.
Built(ret, query, params, err) ==
    [ret |-> ret, query |-> query, params |-> params, error |-> err]

RECURSIVE where_exact_loop(_, _, _, _, _, _)
RECURSIVE where_exact_bind(_, _, _, _, _, _, _)

\* The loop "for (i = 0; i < exact_count; i++)" of sql_dict_where_build,
\* from 1-based field index i on.
where_exact_loop(map, pattern_values, i, exact_count, query, params) ==
    IF i > exact_count
    THEN Built(0, query, params, "")
    ELSE where_exact_bind(map, pattern_values, i, exact_count,
             (IF i > 1 THEN query \o <<"AND">> ELSE query)
                 \o <<map.pattern_fields[i].name, "=", "?">>,
             params,
             sql_dict_field_get_value(map, map.pattern_fields[i],
                                      pattern_values[i], <<>>))

\* The loop body after "field = ?" is written: v is the encoded value.
where_exact_bind(map, pattern_values, i, exact_count, query, params, v) ==
    IF v.ret < 0
    THEN Built(-1, query, params, v.error)
    ELSE where_exact_loop(map, pattern_values, i + 1, exact_count, query,
                          Append(params, v.param))

\* case SQL_DICT_RECURSE_ONE with a value for the next field: like1 and
\* like2 are that value encoded with the suffixes "/%" and "/%/%".
where_like_one(name, query, params, like1, like2) ==
    IF like1.ret < 0
    THEN Built(-1, query \o <<name, "LIKE", "?">>, params, like1.error)
    ELSE IF like2.ret < 0
    THEN Built(-1, query \o <<name, "LIKE", "?", "AND", name, "NOT LIKE",
                              "?">>,
               Append(params, like1.param), like2.error)
    ELSE Built(0, query \o <<name, "LIKE", "?", "AND", name, "NOT LIKE",
                             "?">>,
               params \o <<like1.param, like2.param>>, "")

\* case SQL_DICT_RECURSE_ONE; i is the 0-based field index after the loop.
where_recurse_one(map, pattern_values, i, query, params) ==
    IF i < Len(pattern_values)
    THEN where_like_one(map.pattern_fields[i + 1].name, query, params,
             sql_dict_field_get_value(map, map.pattern_fields[i + 1],
                 pattern_values[i + 1], <<"/", "%">>),
             sql_dict_field_get_value(map, map.pattern_fields[i + 1],
                 pattern_values[i + 1], <<"/", "%", "/", "%">>))
    ELSE Built(0, query \o <<map.pattern_fields[i + 1].name, "LIKE", "'%'",
                             "AND", map.pattern_fields[i + 1].name,
                             "NOT LIKE", "'%/%'">>,
               params, "")

\* case SQL_DICT_RECURSE_FULL with a value for the next field.
where_like_full(name, query, params, like1) ==
    IF like1.ret < 0
    THEN Built(-1, query \o <<name, "LIKE">>, params, like1.error)
    ELSE Built(0, query \o <<name, "LIKE">>, Append(params, like1.param), "")

\* The switch on recurse_type; e is what the loop over the exact fields
\* built and i the 0-based field index it ended at.
where_recurse(map, pattern_values, recurse_type, i, e) ==
    CASE recurse_type = "NONE" -> e
      [] recurse_type = "ONE" ->
           where_recurse_one(map, pattern_values, i,
               IF i > 0 THEN e.query \o <<"AND">> ELSE e.query, e.params)
      [] recurse_type = "FULL" ->
           IF i < Len(pattern_values)
           THEN where_like_full(map.pattern_fields[i + 1].name,
                    IF i > 0 THEN e.query \o <<"AND">> ELSE e.query,
                    e.params,
                    sql_dict_field_get_value(map, map.pattern_fields[i + 1],
                        pattern_values[i + 1], <<"/", "%">>))
           ELSE e

\* Mutation of where_username: the username predicate is written but no
\* parameter is bound for it.
where_username_unbound(username, map, pattern_values, add_username, w) ==
    IF w.ret < 0 \/ ~add_username
    THEN w
    ELSE Built(0,
               (IF Len(pattern_values) > 0 THEN w.query \o <<"AND">>
                ELSE w.query) \o <<map.username_field, "=", "?">>,
               w.params, "")

\* "if (add_username)" at the end of sql_dict_where_build; w is the clause
\* built so far.
where_username(username, map, pattern_values, add_username, w) ==
    IF w.ret < 0 \/ ~add_username
    THEN w
    ELSE Built(0,
               (IF Len(pattern_values) > 0 THEN w.query \o <<"AND">>
                ELSE w.query) \o <<map.username_field, "=", "?">>,
               Append(w.params, Param("STRING", username, 0)), "")

\* The part of sql_dict_where_build after the loop over the exact fields.
where_after_exact(username, map, pattern_values, add_username, recurse_type, i, e) ==
    IF e.ret < 0 THEN e
    ELSE where_username(username, map, pattern_values, add_username,
             where_recurse(map, pattern_values, recurse_type, i, e))

\* Mutation of sql_dict_where_build: no check of exact_count against the
\* number of pattern values.
sql_dict_where_build_unchecked(username, map, pattern_values, add_username, recurse_type, query, params) ==
    LET count == Len(map.pattern_fields)
        count2 == Len(pattern_values)
        exact_count == IF count = count2 /\ recurse_type # "NONE"
                       THEN count2 - 1 ELSE count2
    IN  IF count2 = 0 /\ ~add_username
        THEN Built(0, query, params, "")
        ELSE where_after_exact(username, map, pattern_values, add_username,
                 recurse_type, exact_count,
                 where_exact_loop(map, pattern_values, 1, exact_count,
                                  query \o <<"WHERE">>, params))

\* sql_dict_where_build: appends the WHERE clause to query and its
\* parameters to params.  recurse_type is "NONE", "ONE" or "FULL".
sql_dict_where_build(username, map, pattern_values, add_username, recurse_type, query, params) ==
    LET count == Len(map.pattern_fields)
        count2 == Len(pattern_values)
        exact_count == IF count = count2 /\ recurse_type # "NONE"
                       THEN count2 - 1 ELSE count2
    IN  IF count2 = 0 /\ ~add_username
        THEN Built(0, query, params, "")   \* we want everything
        ELSE IF exact_count # count2
        THEN Built(-1, query \o <<"WHERE">>, params,
                   "Key continues past the matched pattern")
        ELSE where_after_exact(username, map, pattern_values, add_username,
                 recurse_type, exact_count,
                 where_exact_loop(map, pattern_values, 1, exact_count,
                                  query \o <<"WHERE">>, params))

\* ------------------------------------------------------------------------
\* SQL driver (lib-sql), as far as the dictionary uses it
\* ------------------------------------------------------------------------

\* sql_get_flags() bits
SQL_DB_FLAG_ON_DUPLICATE_KEY == "ON_DUPLICATE_KEY"

SQL_DB_FLAG_ON_CONFLICT_DO == "ON_CONFLICT_DO"

\* A statement with its bound parameters.  row_slot is the 1-based index of
\* the inc-row slot handed to sql_update_stmt_get_rows, 0 for none.
Stmt(query, params) == [query |-> query, params |-> params, row_slot |-> 0]

\* sql_update_stmt: the statement joins the SQL transaction.
sql_update_stmt(stmts, stmt) == Append(stmts, stmt)

\* sql_update_stmt_get_rows: as sql_update_stmt, and the backend will write
\* the affected-row count into the slot.
sql_update_stmt_get_rows(stmts, stmt, slot) ==
    Append(stmts, [stmt EXCEPT !.row_slot = slot])

\* ------------------------------------------------------------------------
\* Transaction context and statement builders
\* ------------------------------------------------------------------------

\* The row count of a slot the backend has not written yet: (unsigned int)-1,
\* which no reported count equals.
UINT_MAX == -1

\* A NULL char pointer in ctx->error; a message otherwise.
Error(msg, key, detail) == [msg |-> msg, key |-> key, detail |-> detail]

NULL == Error("NULL", <<>>, "")

\* struct sql_dict_prev: value.str for a set, value.diff for an inc.
Prev(map, key, str, diff) ==
    [map |-> map, key |-> key, str |-> str, diff |-> diff]

\* array_is_created(): a staging array is created by the call that appends
\* its first entry and freed by its flush, so it is created exactly when it
\* holds an entry.
array_is_created(arr) == Len(arr) > 0

\* "a,b,c" from <<a, b, c>>
RECURSIVE CommaJoin(_)
CommaJoin(cols) ==
    IF Len(cols) <= 1 THEN cols
    ELSE <<cols[1], ",">> \o CommaJoin(Tail(cols))

\* t_strcut(value_field, ','): the first comma-separated segment.
t_strcut(value_field) == value_field[1]

\* The first index whose encoding failed, 0 if none.
FirstFailed(enc) ==
    IF \E i \in 1..Len(enc) : enc[i].ret < 0
    THEN CHOOSE i \in 1..Len(enc) :
            enc[i].ret < 0 /\ \A j \in 1..(i - 1) : enc[j].ret >= 0
    ELSE 0

\* The loop of sql_dict_set_query that writes "col=?" for each field, from
\* field i on.
RECURSIVE set_assign_loop(_, _)
set_assign_loop(cols, i) ==
    IF i > Len(cols) THEN <<>>
    ELSE (IF i > 1 THEN <<",">> ELSE <<>>)
         \o <<cols[i], "=", "?">> \o set_assign_loop(cols, i + 1)

\* What sql_dict_set_query hands back: its return value, *stmt_r, *error_r.
BuiltStmt(ret, query, params, err) ==
    [ret |-> ret, stmt |-> Stmt(query, params), error |-> err]

\* Mutation of set_query_upsert: ON CONFLICT is preferred when the backend
\* advertises both upsert forms.
set_query_upsert_conflict_first(flags, map0, add_username, cols, pnames, insert, params, vparams, eparams) ==
    IF SQL_DB_FLAG_ON_CONFLICT_DO \in flags
    THEN BuiltStmt(0,
             insert \o <<"ON CONFLICT", "(">>
                 \o CommaJoin(pnames \o (IF add_username
                                         THEN <<map0.username_field>>
                                         ELSE <<>>))
                 \o <<")", "DO UPDATE SET">>
                 \o set_assign_loop(cols, 1)
                 \o (IF eparams # <<>>
                     THEN <<",", map0.expire_field, "=", "?">> ELSE <<>>),
             params \o vparams \o eparams, "")
    ELSE IF SQL_DB_FLAG_ON_DUPLICATE_KEY \in flags
    THEN BuiltStmt(0,
             insert \o <<"ON DUPLICATE KEY UPDATE">>
                 \o set_assign_loop(cols, 1)
                 \o (IF eparams # <<>>
                     THEN <<",", map0.expire_field, "=", "?">> ELSE <<>>),
             params \o vparams \o eparams, "")
    ELSE BuiltStmt(0, insert, params, "")

\* The end of sql_dict_set_query, from "sql_get_flags" on: insert is the
\* INSERT ... VALUES (...) text with its parameters params, vparams and
\* eparams the value and expire parameters bound again by an upsert tail.
set_query_upsert(flags, map0, add_username, cols, pnames, insert, params, vparams, eparams) ==
    IF SQL_DB_FLAG_ON_DUPLICATE_KEY \in flags
    THEN BuiltStmt(0,
             insert \o <<"ON DUPLICATE KEY UPDATE">>
                 \o set_assign_loop(cols, 1)
                 \o (IF eparams # <<>>
                     THEN <<",", map0.expire_field, "=", "?">> ELSE <<>>),
             params \o vparams \o eparams, "")
    ELSE IF SQL_DB_FLAG_ON_CONFLICT_DO \in flags
    THEN BuiltStmt(0,
             insert \o <<"ON CONFLICT", "(">>
                 \o CommaJoin(pnames \o (IF add_username
                                         THEN <<map0.username_field>>
                                         ELSE <<>>))
                 \o <<")", "DO UPDATE SET">>
                 \o set_assign_loop(cols, 1)
                 \o (IF eparams # <<>>
                     THEN <<",", map0.expire_field, "=", "?">> ELSE <<>>),
             params \o vparams \o eparams, "")
    ELSE BuiltStmt(0, insert, params, "")

\* The INSERT ... VALUES (...) part of sql_dict_set_query: names are the
\* columns in the order written, params their parameters.
set_query_insert(flags, map0, add_username, cols, pnames, names, params, vparams, eparams) ==
    set_query_upsert(flags, map0, add_username, cols, pnames,
        <<"INSERT INTO", map0.table, "(">> \o CommaJoin(names)
            \o <<")", "VALUES", "(">>
            \o CommaJoin([i \in 1..Len(names) |-> "?"]) \o <<")">>,
        params, vparams, eparams)

\* sql_dict_set_query once the values (vals) and the pattern values (pats)
\* are encoded, in the order the code encodes them.  cols are the value
\* columns, one per field.
set_query_encoded(flags, set, map0, add_username, expire_timestamp, cols, vals, pats) ==
    IF FirstFailed(vals) # 0
    THEN BuiltStmt(-1, <<>>, <<>>, vals[FirstFailed(vals)].error)
    ELSE IF FirstFailed(pats) # 0
    THEN BuiltStmt(-1, <<>>, <<>>, pats[FirstFailed(pats)].error)
    ELSE set_query_insert(flags, map0, add_username, cols,
             [i \in 1..Len(pats) |-> map0.pattern_fields[i].name],
             cols
                 \o (IF add_username THEN <<map0.username_field>> ELSE <<>>)
                 \o (IF expire_timestamp # 0 THEN <<map0.expire_field>>
                     ELSE <<>>)
                 \o [i \in 1..Len(pats) |-> map0.pattern_fields[i].name],
             [i \in 1..Len(vals) |-> vals[i].param]
                 \o (IF add_username
                     THEN <<Param("STRING", set.username, 0)>> ELSE <<>>)
                 \o (IF expire_timestamp # 0
                     THEN <<Param("UINT", <<>>, expire_timestamp)>>
                     ELSE <<>>)
                 \o [i \in 1..Len(pats) |-> pats[i].param],
             [i \in 1..Len(vals) |-> vals[i].param],
             IF expire_timestamp # 0
             THEN <<Param("UINT", <<>>, expire_timestamp)>> ELSE <<>>)

\* sql_dict_set_query: the INSERT (with its upsert tail, by backend flags)
\* for build = [fields, pattern_values, add_username], fields being
\* [map, value] records.  The exact match of find_map bound every pattern
\* field of fields[0].map (count == count2).
sql_dict_set_query(maps, flags, set, now, build) ==
    set_query_encoded(flags, set, maps[build.fields[1].map],
        build.add_username,
        IF maps[build.fields[1].map].expire_field # NoField
           /\ set.expire_secs > 0
        THEN now + set.expire_secs ELSE 0,
        [i \in 1..Len(build.fields) |->
            t_strcut(maps[build.fields[i].map].value_field)],
        [i \in 1..Len(build.fields) |->
            sql_dict_value_get(maps[build.fields[i].map],
                maps[build.fields[i].map].value_types[1], "value",
                build.fields[i].value, <<>>)],
        [i \in 1..Len(maps[build.fields[1].map].pattern_fields) |->
            sql_dict_field_get_value(maps[build.fields[1].map],
                maps[build.fields[1].map].pattern_fields[i],
                build.pattern_values[i], <<>>)])

\* The loop of sql_dict_update_query that writes "col=col+?" for each field,
\* from field i on.
RECURSIVE update_assign_loop(_, _, _)
update_assign_loop(maps, fields, i) ==
    IF i > Len(fields) THEN <<>>
    ELSE (IF i > 1 THEN <<",">> ELSE <<>>)
         \o <<t_strcut(maps[fields[i].map].value_field), "=",
              t_strcut(maps[fields[i].map].value_field), "+", "?">>
         \o update_assign_loop(maps, fields, i + 1)

\* sql_dict_update_query: the UPDATE that adds params (one diff per field)
\* to the first value column of each field's map.
sql_dict_update_query(maps, set, build, params) ==
    sql_dict_where_build(set.username, maps[build.fields[1].map],
        build.pattern_values, build.add_username, "NONE",
        <<"UPDATE", maps[build.fields[1].map].table, "SET">>
            \o update_assign_loop(maps, build.fields, 1),
        params)

\* ------------------------------------------------------------------------
\* State
\* ------------------------------------------------------------------------

VARIABLES
    db_flags,        \* sql_get_flags(dict->db)
    op_set,          \* ctx->ctx.set: [username, expire_secs]
    ioloop_time,     \* the current time in seconds
    changed,         \* ctx->ctx.changed
    error,           \* ctx->error
    error_log,       \* every message assigned to ctx->error, in order
    async_callback,  \* ctx->async_callback: "NULL" or "set"
    prev_inc,        \* ctx->prev_inc
    prev_set,        \* ctx->prev_set
    inc_row,         \* ctx->inc_row chain, oldest slot first
    sql_stmts,       \* the statements added to ctx->sql_ctx, in order
    sql_state,       \* ctx->sql_ctx: "open", "commit_pending", "committed",
                     \* "commit_failed" or "rolled_back"
    ctx_state,       \* "open", "commit_wait" (async commit sent) or "freed"
    backend_commits, \* calls of sql_transaction_commit / _commit_s
    commit_results,  \* results handed to the commit callback, in order
    calls,           \* the set / atomic_inc / unset calls made, in order
    sql_commit_result, \* what the backend reported of the commit:
                     \* [ok, error_type], error_type "NULL" before it did
    set_maps,        \* dict->set->maps of the matcher under study
    match_path,      \* the path handed to the matcher
    match_result,    \* <<>>, then <<what the matcher call returned>>
    lookup_key,      \* the key of the lookup call
    lookup_state,    \* "idle", "pending" (async query sent) or "done"
    lookup_map,      \* struct sql_dict_lookup_context.map (0 before)
    lookup_callback, \* the caller's callback: "NULL" (none, a synchronous
                     \* lookup) or "set"
    lookup_stmts,    \* the statements the lookup sent to the backend
    sql_result,      \* what the backend answers: [rows, failed]
    lookup_results,  \* sync: what the call returned; async: the results
                     \* handed to the caller's callback, in order
    db_entries,      \* the entries stored in the backend's tables, in
                     \* table order
    iter_ctx,        \* struct sql_dict_iterate_context
    iter_stmts,      \* the queries the iteration sent to the backend
    iter_out,        \* what the iterate calls yielded, in order
    db_rows,         \* the rows of the backend's tables that statements
                     \* are executed on, in table order
    expire_scans,    \* what the expire_scan calls returned, in order
    scram_in,        \* the escaped name handed to scram_unescape_username
    scram_out        \* what parsing the username field gave, once it ran

\* The state of one transaction.
txn_vars == <<db_flags, op_set, ioloop_time, changed, error, error_log, async_callback, prev_inc, prev_set, inc_row, sql_stmts, sql_state, ctx_state, backend_commits, commit_results, calls, sql_commit_result>>

\* The matcher's configuration, argument and result.
match_vars == <<set_maps, match_path, match_result>>

\* One lookup call and the backend's answer to its query.
lookup_vars == <<lookup_key, lookup_state, lookup_map, lookup_callback, lookup_stmts, sql_result, lookup_results>>

\* One iteration and the tables it reads.
iter_vars == <<db_entries, iter_ctx, iter_stmts, iter_out>>

\* The backend's tables under writes, and the expire scans.
store_vars == <<db_rows, expire_scans>>

\* The SCRAM username of the auth server, apart from the dict.
scram_vars == <<scram_in, scram_out>>

\* Everything outside the transaction.
other_vars == <<match_vars, lookup_vars, iter_vars, store_vars, scram_vars>>

vars == <<txn_vars, other_vars>>

\* No matcher call is under study.
MatchIdle == set_maps = <<>> /\ match_path = <<>> /\ match_result = <<>>

\* No iteration is under study.
IterIdle ==
    /\ db_entries = <<>>
    /\ iter_ctx = [state |-> "none"]
    /\ iter_stmts = <<>>
    /\ iter_out = <<>>

\* No table is written and no expire scan is under study.
StoreIdle == db_rows = <<>> /\ expire_scans = <<>>

\* No SCRAM username is under study.
ScramIdle == scram_in = <<>> /\ scram_out = <<>>

\* No lookup call is under study.
LookupIdle ==
    /\ lookup_key = <<>>
    /\ lookup_state = "idle"
    /\ lookup_map = 0
    /\ lookup_callback = "NULL"
    /\ lookup_stmts = <<>>
    /\ sql_result = [rows |-> <<>>, failed |-> FALSE]
    /\ lookup_results = <<>>

\* The fields of struct sql_dict_transaction_context the mutation verbs and
\* the flushes read and write.
Ctx == [error |-> error, error_log |-> error_log, prev_inc |-> prev_inc,
        prev_set |-> prev_set, inc_row |-> inc_row, stmts |-> sql_stmts]

\* ctx->error = i_strdup_printf(...): the assignment replaces whatever the
\* pointer held.
SetError(c, e) == [c EXCEPT !.error = e, !.error_log = Append(@, e)]

\* ------------------------------------------------------------------------
\* Staging buffers
\* ------------------------------------------------------------------------

IsPrivate(key) == key[1] = DICT_PATH_PRIVATE[1]

\* build.fields / build.pattern_values / build.add_username as the two
\* flushes fill them from the staged entries.
BuildQuery(prevs) ==
    [fields |-> [i \in 1..Len(prevs) |->
                    [map |-> prevs[i].map, value |-> prevs[i].str]],
     pattern_values |-> sql_dict_find_map(Maps, prevs[1].key).values,
     add_username |-> IsPrivate(prevs[1].key)]

\* The end of sql_dict_prev_set_flush: q is what sql_dict_set_query built.
prev_set_flush_stmt(c, q) ==
    IF q.ret < 0
    THEN [SetError(c, Error("dict-sql: Failed to set fields",
                            c.prev_set[1].key, q.error))
             EXCEPT !.prev_set = <<>>]
    ELSE [c EXCEPT !.stmts = sql_update_stmt(c.stmts, q.stmt),
                   !.prev_set = <<>>]

\* sql_dict_prev_set_flush (with the sql_dict_prev_set_free it ends in)
sql_dict_prev_set_flush(c) ==
    IF c.error # NULL
    THEN [c EXCEPT !.prev_set = <<>>]
    ELSE prev_set_flush_stmt(c,
             sql_dict_set_query(Maps, db_flags, op_set, ioloop_time,
                                BuildQuery(c.prev_set)))

\* sql_dict_next_inc_row: a new slot, not yet reported, joins the chain.
sql_dict_next_inc_row(rows) == Append(rows, UINT_MAX)

\* The end of sql_dict_prev_inc_flush: q is what sql_dict_update_query
\* built.
prev_inc_flush_stmt(c, q) ==
    IF q.ret < 0
    THEN [SetError(c, Error("dict-sql: Failed to increase fields",
                            c.prev_inc[1].key, q.error))
             EXCEPT !.prev_inc = <<>>]
    ELSE [c EXCEPT !.stmts = sql_update_stmt_get_rows(c.stmts,
                                 Stmt(q.query, q.params),
                                 Len(c.inc_row) + 1),
                   !.inc_row = sql_dict_next_inc_row(c.inc_row),
                   !.prev_inc = <<>>]

\* sql_dict_prev_inc_flush (with the sql_dict_prev_inc_free it ends in)
sql_dict_prev_inc_flush(c) ==
    IF c.error # NULL
    THEN [c EXCEPT !.prev_inc = <<>>]
    ELSE prev_inc_flush_stmt(c,
             sql_dict_update_query(Maps, op_set, BuildQuery(c.prev_inc),
                 [i \in 1..Len(c.prev_inc) |->
                     Param("INT", <<>>, c.prev_inc[i].diff)]))

\* Mutation of sql_dict_maps_are_mergeable: the username columns of private
\* keys are not compared.
maps_are_mergeable_any_username(prev1, map2, map2_key, map2_pattern_values) ==
    /\ Maps[prev1.map].table = Maps[map2].table
    /\ prev1.key[1] = map2_key[1]
    /\ sql_dict_find_map(Maps, prev1.key).values = map2_pattern_values

\* Mutation of sql_dict_maps_are_mergeable: the pattern values are not
\* compared.
maps_are_mergeable_any_values(prev1, map2, map2_key, map2_pattern_values) ==
    /\ Maps[prev1.map].table = Maps[map2].table
    /\ prev1.key[1] = map2_key[1]
    /\ (IsPrivate(prev1.key)
        => Maps[prev1.map].username_field = Maps[map2].username_field)

\* sql_dict_maps_are_mergeable: may (map2, map2_key, map2_pattern_values)
\* join the batch whose first entry is prev1?
sql_dict_maps_are_mergeable(prev1, map2, map2_key, map2_pattern_values) ==
    IF Maps[prev1.map].table # Maps[map2].table
    THEN FALSE   \* sql table names must equal
    ELSE IF prev1.key[1] # map2_key[1]
    THEN FALSE   \* private vs shared prefix must equal
    ELSE IF IsPrivate(prev1.key)
            /\ Maps[prev1.map].username_field # Maps[map2].username_field
    THEN FALSE   \* for private keys, username must equal
    ELSE \* variable values in the paths must equal exactly
         sql_dict_find_map(Maps, prev1.key).values = map2_pattern_values

\* ------------------------------------------------------------------------
\* Mutation verbs, as functions of the transaction context
\* ------------------------------------------------------------------------

\* sql_dict_set from "map = sql_dict_find_map" on: c is the context after
\* the flush of prev_inc, m what find_map returned.
set_staged(c, key, value, m) ==
    IF m.map = 0
    THEN SetError(c, Error("sql dict set: Invalid/unmapped key", key, ""))
    ELSE [(IF array_is_created(c.prev_set)
              /\ ~sql_dict_maps_are_mergeable(c.prev_set[1], m.map, key,
                                              m.values)
           THEN sql_dict_prev_set_flush(c) ELSE c)
             EXCEPT !.prev_set = Append(@, Prev(m.map, key, value, 0))]

\* Mutation of sql_dict_set: the staged increments are not flushed first.
sql_dict_set_noflush(c, key, value) ==
    IF c.error # NULL THEN c
    ELSE set_staged(c, key, value, sql_dict_find_map(Maps, key))

\* sql_dict_set
sql_dict_set(c, key, value) ==
    IF c.error # NULL THEN c
    ELSE set_staged(IF array_is_created(c.prev_inc)
                    THEN sql_dict_prev_inc_flush(c) ELSE c,
                    key, value, sql_dict_find_map(Maps, key))

\* sql_dict_atomic_inc from "map = sql_dict_find_map" on: c is the context
\* after the flush of prev_set, m what find_map returned.
inc_staged(c, key, diff, m) ==
    IF m.map = 0
    THEN SetError(c, Error("sql dict atomic inc: Invalid/unmapped key",
                           key, ""))
    ELSE [(IF array_is_created(c.prev_inc)
              /\ ~sql_dict_maps_are_mergeable(c.prev_inc[1], m.map, key,
                                              m.values)
           THEN sql_dict_prev_inc_flush(c) ELSE c)
             EXCEPT !.prev_inc = Append(@, Prev(m.map, key, <<>>, diff))]

\* Mutation of sql_dict_atomic_inc: the staged sets are not flushed first.
sql_dict_atomic_inc_noflush(c, key, diff) ==
    IF c.error # NULL THEN c
    ELSE inc_staged(c, key, diff, sql_dict_find_map(Maps, key))

\* sql_dict_atomic_inc
sql_dict_atomic_inc(c, key, diff) ==
    IF c.error # NULL THEN c
    ELSE inc_staged(IF array_is_created(c.prev_set)
                    THEN sql_dict_prev_set_flush(c) ELSE c,
                    key, diff, sql_dict_find_map(Maps, key))

\* The end of sql_dict_unset: q is the DELETE with the WHERE clause built.
unset_stmt(c, key, q) ==
    IF q.ret < 0
    THEN SetError(c, Error("dict-sql: Failed to delete", key, q.error))
    ELSE [c EXCEPT !.stmts =
             sql_update_stmt(c.stmts, Stmt(q.query, q.params))]

\* sql_dict_unset from "map = sql_dict_find_map" on: c is the context after
\* both flushes, m what find_map returned.
unset_flushed(c, key, m) ==
    IF m.map = 0
    THEN SetError(c, Error("dict-sql: Invalid/unmapped key", key, ""))
    ELSE unset_stmt(c, key,
             sql_dict_where_build(op_set.username, Maps[m.map], m.values,
                 IsPrivate(key), "NONE",
                 <<"DELETE FROM", Maps[m.map].table>>, <<>>))

\* The second half of "flush any pending set/inc": prev_set.
flush_pending_set(c) ==
    IF array_is_created(c.prev_set) THEN sql_dict_prev_set_flush(c) ELSE c

\* Mutation of flush_pending: only the staged increments are flushed.
flush_pending_inc_only(c) ==
    IF array_is_created(c.prev_inc) THEN sql_dict_prev_inc_flush(c) ELSE c

\* "flush any pending set/inc", first prev_inc, then prev_set, as unset and
\* commit do.
flush_pending(c) ==
    flush_pending_set(IF array_is_created(c.prev_inc)
                      THEN sql_dict_prev_inc_flush(c) ELSE c)

\* Mutation of sql_dict_unset: no early return on a latched error.
sql_dict_unset_no_latch(c, key) ==
    unset_flushed(flush_pending(c), key, sql_dict_find_map(Maps, key))

\* sql_dict_unset
sql_dict_unset(c, key) ==
    IF c.error # NULL THEN c
    ELSE unset_flushed(flush_pending(c), key, sql_dict_find_map(Maps, key))

\* ------------------------------------------------------------------------
\* Inputs
\* ------------------------------------------------------------------------

QuotaKey(prefix, uid, leaf) == prefix \o <<"q", "/">> \o uid \o <<"/", leaf>>

\* Keys the host passes: the two columns of one shared row, another row, a
\* row whose uid does not encode as INT, two private keys whose maps name
\* different username columns, and a key no map matches.
KeyBytes1 == QuotaKey(DICT_PATH_SHARED, <<"1">>, "b")

KeyCount1 == QuotaKey(DICT_PATH_SHARED, <<"1">>, "c")

KeyBytes2 == QuotaKey(DICT_PATH_SHARED, <<"2">>, "b")

KeyBytesX == QuotaKey(DICT_PATH_SHARED, <<"x">>, "b")

KeyPrivBytes == QuotaKey(DICT_PATH_PRIVATE, <<"1">>, "b")

KeyPrivCount == QuotaKey(DICT_PATH_PRIVATE, <<"1">>, "c")

KeyUnmapped == DICT_PATH_SHARED \o <<"z">>

\* The set(key, value) calls drawn; <<"x">> does not encode for the INT
\* column bytes.
SetInputs ==
    { <<KeyBytes1, <<"5">>>>, <<KeyCount1, <<"x">>>>, <<KeyBytes1, <<"x">>>>,
      <<KeyBytes2, <<"5">>>>, <<KeyPrivBytes, <<"5">>>>,
      <<KeyPrivCount, <<"5">>>>, <<KeyUnmapped, <<"5">>>> }

\* The atomic_inc(key, diff) calls drawn.
IncInputs ==
    { <<KeyBytes1, 1>>, <<KeyCount1, -1>>, <<KeyBytesX, 1>>,
      <<KeyPrivBytes, 1>>, <<KeyUnmapped, 1>> }

\* The unset(key) calls drawn.
UnsetInputs == { KeyBytes1, KeyBytesX, KeyUnmapped }

DbFlagChoices ==
    { {}, {SQL_DB_FLAG_ON_DUPLICATE_KEY}, {SQL_DB_FLAG_ON_CONFLICT_DO},
      {SQL_DB_FLAG_ON_DUPLICATE_KEY, SQL_DB_FLAG_ON_CONFLICT_DO} }

\* Rows written expire after MaxExpireSecs seconds, or never.
MaxExpireSecs == 2

OpSettings ==
    { [username |-> <<"b", "o", "b">>, expire_secs |-> 0],
      [username |-> <<"b", "o", "b">>, expire_secs |-> MaxExpireSecs] }

\* The settings of an operation that only reads: expire_secs is not used.
ReadSettings == {s \in OpSettings : s.expire_secs = 0}

Call(op, key, str, diff) == [op |-> op, key |-> key, str |-> str,
                             diff |-> diff]

\* struct dict_commit_result
Result(ret, err) == [ret |-> ret, error |-> err]

\* ------------------------------------------------------------------------
\* Init: the transaction context as sql_dict_transaction_init returns it
\* ------------------------------------------------------------------------

TxnInit ==
    /\ ioloop_time = 100
    /\ changed = FALSE
    /\ error = NULL
    /\ error_log = <<>>
    /\ async_callback = "NULL"
    /\ prev_inc = <<>>
    /\ prev_set = <<>>
    /\ inc_row = <<>>
    /\ sql_stmts = <<>>
    /\ sql_state = "open"
    /\ ctx_state = "open"
    /\ backend_commits = 0
    /\ commit_results = <<>>
    /\ calls = <<>>
    /\ sql_commit_result = [ok |-> FALSE, error_type |-> "NULL"]

Init ==
    /\ db_flags \in DbFlagChoices
    /\ op_set \in OpSettings
    /\ TxnInit
    /\ MatchIdle
    /\ LookupIdle
    /\ IterIdle
    /\ StoreIdle
    /\ ScramIdle

\* ------------------------------------------------------------------------
\* Actions
\* ------------------------------------------------------------------------

\* The context fields after a mutation verb returned c; the dict_set /
\* dict_atomic_inc / dict_unset wrapper of lib-dict then marks the
\* transaction changed.
Mutated(c, call) ==
    /\ error' = c.error
    /\ error_log' = c.error_log
    /\ prev_inc' = c.prev_inc
    /\ prev_set' = c.prev_set
    /\ inc_row' = c.inc_row
    /\ sql_stmts' = c.stmts
    /\ changed' = TRUE
    /\ calls' = Append(calls, call)
    /\ UNCHANGED <<db_flags, op_set, ioloop_time, async_callback, sql_state,
                   ctx_state, backend_commits, commit_results,
                   sql_commit_result>>
    /\ UNCHANGED other_vars

Set(key, value) ==
    /\ ctx_state = "open"
    /\ Len(calls) < MaxCalls
    /\ Mutated(sql_dict_set(Ctx, key, value), Call("set", key, value, 0))

AtomicInc(key, diff) ==
    /\ ctx_state = "open"
    /\ Len(calls) < MaxCalls
    /\ Mutated(sql_dict_atomic_inc(Ctx, key, diff),
               Call("inc", key, <<>>, diff))

Unset(key) ==
    /\ ctx_state = "open"
    /\ Len(calls) < MaxCalls
    /\ Mutated(sql_dict_unset(Ctx, key), Call("unset", key, <<>>, 0))

\* Mutation of sql_dict_transaction_has_nonexistent: only the newest slot is
\* looked at.
has_nonexistent_newest_only(rows) ==
    rows # <<>> /\ rows[Len(rows)] = 0

\* sql_dict_transaction_has_nonexistent
sql_dict_transaction_has_nonexistent(rows) ==
    \E i \in 1..Len(rows) : rows[i] = 0

\* sql_dict_transaction_free: the staging arrays are freed; error and the
\* inc-row pool are released with the context (their last contents stay
\* readable in the model).
Freed(c) ==
    /\ prev_inc' = <<>>
    /\ prev_set' = <<>>
    /\ error' = c.error
    /\ error_log' = c.error_log
    /\ ctx_state' = "freed"

\* Mutation of CommitBranch: a latched error does not stop the commit.
CommitBranch_ignores_error(c) ==
    IF ~changed THEN "unchanged" ELSE "commit"

\* Mutation of CommitBranch: an unchanged transaction is committed.
CommitBranch_ignores_changed(c) ==
    IF c.error # NULL THEN "error" ELSE "commit"

\* The branch sql_dict_transaction_commit takes once the staging buffers
\* are flushed into c: "error" and "unchanged" roll back, "commit" goes to
\* the backend.
CommitBranch(c) ==
    IF c.error # NULL THEN "error"
    ELSE IF ~changed THEN "unchanged"
    ELSE "commit"

\* Mutation of commit_callback: every backend failure is reported FAILED.
commit_callback_all_failed(ok, rows, error_type) ==
    /\ sql_commit_result' = [ok |-> ok, error_type |-> error_type]
    /\ sql_state' = IF ok THEN "committed" ELSE "commit_failed"
    /\ inc_row' = rows
    /\ commit_results' =
           Append(commit_results,
               IF ok
               THEN Result(IF sql_dict_transaction_has_nonexistent(rows)
                           THEN "NOTFOUND" ELSE "OK", NULL)
               ELSE Result("FAILED",
                           Error("sql dict: commit failed", <<>>,
                                 "backend")))

\* Mutation of commit_callback: the caller's callback is called twice.
commit_callback_twice(ok, rows, error_type) ==
    /\ sql_commit_result' = [ok |-> ok, error_type |-> error_type]
    /\ sql_state' = IF ok THEN "committed" ELSE "commit_failed"
    /\ inc_row' = rows
    /\ commit_results' =
           commit_results
           \o [i \in 1..2 |->
                  IF ok
                  THEN Result(IF sql_dict_transaction_has_nonexistent(rows)
                              THEN "NOTFOUND" ELSE "OK", NULL)
                  ELSE Result(IF error_type = "WRITE_UNCERTAIN"
                              THEN "WRITE_UNCERTAIN" ELSE "FAILED",
                              Error("sql dict: commit failed", <<>>,
                                    "backend"))]

\* sql_dict_transaction_commit_callback from "result.ret =" on: the backend
\* reported success with rows[i] affected rows for the i-th UPDATE holding a
\* row slot, or failure with error_type.
commit_callback(ok, rows, error_type) ==
    /\ sql_commit_result' = [ok |-> ok, error_type |-> error_type]
    /\ sql_state' = IF ok THEN "committed" ELSE "commit_failed"
    /\ inc_row' = rows
    /\ commit_results' =
           Append(commit_results,
               IF ok
               THEN Result(IF sql_dict_transaction_has_nonexistent(rows)
                           THEN "NOTFOUND" ELSE "OK", NULL)
               ELSE Result(IF error_type = "WRITE_UNCERTAIN"
                           THEN "WRITE_UNCERTAIN" ELSE "FAILED",
                           Error("sql dict: commit failed", <<>>,
                                 "backend")))

\* sql_dict_transaction_commit after "flush any pending set/inc" left the
\* context c.  A latched error and an unchanged transaction roll back; an
\* async commit is sent and the call returns; a synchronous commit fails or
\* succeeds within the call.
sql_dict_transaction_commit(c, async) ==
    /\ sql_stmts' = c.stmts
    /\ IF CommitBranch(c) = "error"
       THEN /\ sql_state' = "rolled_back"
            /\ commit_results' =
                   Append(commit_results, Result("FAILED", c.error))
            /\ inc_row' = c.inc_row
            /\ Freed(c)
            /\ UNCHANGED <<backend_commits, async_callback,
                           sql_commit_result>>
       ELSE IF CommitBranch(c) = "unchanged"
       THEN /\ sql_state' = "rolled_back"
            /\ commit_results' = Append(commit_results, Result("OK", NULL))
            /\ inc_row' = c.inc_row
            /\ Freed(c)
            /\ UNCHANGED <<backend_commits, async_callback,
                           sql_commit_result>>
       ELSE IF async
       THEN /\ async_callback' = "set"
            /\ sql_state' = "commit_pending"
            /\ ctx_state' = "commit_wait"
            /\ backend_commits' = backend_commits + 1
            /\ prev_inc' = c.prev_inc
            /\ prev_set' = c.prev_set
            /\ inc_row' = c.inc_row
            /\ error' = c.error
            /\ error_log' = c.error_log
            /\ UNCHANGED <<commit_results, sql_commit_result>>
       ELSE /\ backend_commits' = backend_commits + 1
            /\ Freed(c)
            /\ UNCHANGED async_callback
            /\ \/ /\ sql_state' = "commit_failed"
                  /\ sql_commit_result' =
                         [ok |-> FALSE, error_type |-> "NONE"]
                  /\ inc_row' = c.inc_row
                  /\ commit_results' =
                         Append(commit_results,
                             Result("FAILED",
                                 Error("sql dict: commit failed", <<>>,
                                       "backend")))
               \/ \E rows \in [1..Len(c.inc_row) -> 0..MaxRows] :
                     commit_callback(TRUE, rows, "NONE")

Commit(async) ==
    /\ ctx_state = "open"
    /\ sql_dict_transaction_commit(flush_pending(Ctx), async)
    /\ UNCHANGED <<db_flags, op_set, ioloop_time, changed, calls>>
    /\ UNCHANGED other_vars

\* sql_dict_transaction_commit_callback, called by the backend for an async
\* commit.
CommitCallback ==
    /\ ctx_state = "commit_wait"
    /\ \/ \E rows \in [1..Len(inc_row) -> 0..MaxRows] :
              commit_callback(TRUE, rows, "NONE")
       \/ \E error_type \in {"UNKNOWN", "WRITE_UNCERTAIN"} :
              commit_callback(FALSE, inc_row, error_type)
    /\ Freed(Ctx)
    /\ UNCHANGED <<db_flags, op_set, ioloop_time, changed, async_callback,
                   sql_stmts, backend_commits, calls>>
    /\ UNCHANGED other_vars

\* Mutation of Rollback: the staged batches are flushed before the rollback.
Rollback_flushing ==
    /\ ctx_state = "open"
    /\ sql_state' = "rolled_back"
    /\ sql_stmts' = flush_pending(Ctx).stmts
    /\ Freed(Ctx)
    /\ UNCHANGED <<db_flags, op_set, ioloop_time, changed, async_callback,
                   inc_row, backend_commits, commit_results, calls,
                   sql_commit_result>>
    /\ UNCHANGED other_vars

\* sql_dict_transaction_rollback
Rollback ==
    /\ ctx_state = "open"
    /\ sql_state' = "rolled_back"
    /\ Freed(Ctx)
    /\ UNCHANGED <<db_flags, op_set, ioloop_time, changed, async_callback,
                   inc_row, sql_stmts, backend_commits, commit_results,
                   calls, sql_commit_result>>
    /\ UNCHANGED other_vars

Next ==
    \/ \E in \in SetInputs : Set(in[1], in[2])
    \/ \E in \in IncInputs : AtomicInc(in[1], in[2])
    \/ \E key \in UnsetInputs : Unset(key)
    \/ \E async \in BOOLEAN : Commit(async)
    \/ CommitCallback
    \/ Rollback

Spec == Init /\ [][Next]_vars

\* The backend reports the result of every asynchronous commit it was sent.
SpecCommitFair == Spec /\ WF_vars(CommitCallback)

\* ------------------------------------------------------------------------
\* The matcher on its own: sql_dict_find_map over short map lists, and
\* dict_sql_map_match over every short pattern
\* ------------------------------------------------------------------------

MaxMaps == 2
MaxPatLen == 3
MaxPathLen == 3

\* Every string of 1..n characters of chars.
RECURSIVE Strings(_, _)
Strings(chars, n) ==
    IF n = 0 THEN {}
    ELSE LET shorter == Strings(chars, n - 1)
         IN  {<<c>> : c \in chars} \cup shorter
             \cup {Append(s, c) : s \in shorter, c \in chars}

\* Patterns over a literal, the separator and the variable.
Patterns == Strings({"a", "/", "$"}, MaxPatLen)

Paths == Strings({"a", "/"}, MaxPathLen)

\* The names of a pattern's fields, one for each variable of the pattern.
FieldNames == <<"f1", "f2", "f3", "f4", "f5">>

VariableCount(pattern) ==
    Cardinality({i \in 1..Len(pattern) : pattern[i] = "$"})

\* A map of the given pattern with one string field per variable.
PatternMap(pattern) ==
    Map(pattern, "t",
        [i \in 1..VariableCount(pattern) |-> Field(FieldNames[i], "STRING")],
        <<"value">>, <<"STRING">>, "username", NoField)

\* The patterns the map lists are made of: overlapping, so that several
\* maps of one list match the same path.
ListPatterns ==
    { <<"$">>, <<"a">>, <<"a", "/", "$">>, <<"a", "/", "a">>,
      <<"$", "/", "a">> }

RECURSIVE MapLists(_)
MapLists(n) ==
    IF n = 0 THEN {}
    ELSE LET shorter == MapLists(n - 1)
         IN  {<<PatternMap(p)>> : p \in ListPatterns} \cup shorter
             \cup {Append(l, PatternMap(p)) : l \in shorter,
                                               p \in ListPatterns}

InitFindMap ==
    /\ db_flags = {}
    /\ op_set \in ReadSettings
    /\ TxnInit
    /\ set_maps \in MapLists(MaxMaps)
    /\ match_path \in Paths
    /\ match_result = <<>>
    /\ LookupIdle
    /\ IterIdle
    /\ StoreIdle
    /\ ScramIdle

\* sql_dict_find_map(dict, path, &pattern_values)
FindMap ==
    /\ match_result = <<>>
    /\ match_result' = <<sql_dict_find_map(set_maps, match_path)>>
    /\ UNCHANGED <<txn_vars, set_maps, match_path, lookup_vars, iter_vars, store_vars, scram_vars>>

NextFindMap == FindMap

SpecFindMap == InitFindMap /\ [][NextFindMap]_vars

InitMapMatch ==
    /\ db_flags = {}
    /\ op_set \in ReadSettings
    /\ TxnInit
    /\ set_maps \in {<<PatternMap(p)>> : p \in Patterns}
    /\ match_path \in Paths
    /\ match_result = <<>>
    /\ LookupIdle
    /\ IterIdle
    /\ StoreIdle
    /\ ScramIdle

\* dict_sql_map_match(&maps[0], path, &pattern_values, &pat_len, &path_len,
\* partial_ok, recurse)
MapMatch(partial_ok, recurse) ==
    /\ match_result = <<>>
    /\ match_result' =
           <<[partial_ok |-> partial_ok, recurse |-> recurse,
              match |-> dict_sql_map_match(set_maps[1], match_path,
                                           partial_ok, recurse)]>>
    /\ UNCHANGED <<txn_vars, set_maps, match_path, lookup_vars, iter_vars, store_vars, scram_vars>>

NextMapMatch ==
    \E partial_ok \in BOOLEAN, recurse \in BOOLEAN :
        MapMatch(partial_ok, recurse)

SpecMapMatch == InitMapMatch /\ [][NextMapMatch]_vars

\* ------------------------------------------------------------------------
\* Lookup
\* ------------------------------------------------------------------------

MaxResultRows == 2

\* A const char * that may be NULL: a column of a result row, a decoded
\* value.
SqlNull == [null |-> TRUE, str |-> <<>>]

SqlStr(str) == [null |-> FALSE, str |-> str]

\* str_to_time
str_to_time(str) == str_to_int64(str)

\* "SELECT [expire_field,]value_field FROM table" of sql_lookup_get_query
lookup_select(map) ==
    <<"SELECT">>
    \o (IF map.expire_field # NoField
        THEN <<map.expire_field, ",">> ELSE <<>>)
    \o CommaJoin(map.value_field) \o <<"FROM", map.table>>

\* The end of sql_lookup_get_query: w is what sql_dict_where_build built.
lookup_query_built(key, map, w) ==
    IF w.ret < 0
    THEN [ret |-> -1, map |-> map, stmt |-> Stmt(<<>>, <<>>),
          error |-> Error("sql dict lookup: Failed to lookup key", key,
                          w.error)]
    ELSE [ret |-> 0, map |-> map, stmt |-> Stmt(w.query, w.params),
          error |-> NULL]

\* Mutation of lookup_query_found: an unmapped key is looked up in the
\* first map.
lookup_query_found_first_map(set, key, f) ==
    lookup_query_built(key, IF f.map = 0 THEN 1 ELSE f.map,
        sql_dict_where_build(set.username,
            Maps[IF f.map = 0 THEN 1 ELSE f.map], f.values,
            IsPrivate(key), "NONE",
            lookup_select(Maps[IF f.map = 0 THEN 1 ELSE f.map]), <<>>))

\* sql_lookup_get_query from "if (map == NULL)" on: f is what
\* sql_dict_find_map returned.
lookup_query_found(set, key, f) ==
    IF f.map = 0
    THEN [ret |-> -1, map |-> 0, stmt |-> Stmt(<<>>, <<>>),
          error |-> Error("sql dict lookup: Invalid/unmapped key", key, "")]
    ELSE lookup_query_built(key, f.map,
             sql_dict_where_build(set.username, Maps[f.map], f.values,
                 IsPrivate(key), "NONE", lookup_select(Maps[f.map]), <<>>))

\* sql_lookup_get_query: [ret, map (*map_r), stmt (*stmt_r), error].
sql_lookup_get_query(set, key) ==
    lookup_query_found(set, key, sql_dict_find_map(Maps, key))

\* sql_dict_result_unescape for the STRING, INT and UINT columns: the
\* column's text, the empty string for an SQL NULL.
sql_dict_result_unescape(type, field_value) ==
    IF field_value.null THEN SqlStr(<<>>) ELSE SqlStr(field_value.str)

\* sql_result_get_field_value(result, idx) on the row the cursor is on: row
\* is the sequence of the row's columns in SELECT order, idx is 0-based.
sql_result_get_field_value(row, idx) == row[idx + 1]

\* sql_dict_result_unescape_values: the expire column, when selected, comes
\* first and is not included.
sql_dict_result_unescape_values(map, row) ==
    [i \in 1..map.values_count |->
        sql_dict_result_unescape(map.value_types[i],
            sql_result_get_field_value(row,
                (IF map.expire_field # NoField THEN 1 ELSE 0) + i - 1))]

\* enum sql_result_next of lib-sql: more rows are to be fetched with
\* sql_result_more.
SQL_RESULT_NEXT_MORE == -99

\* Mutation of expire_row_kept: a row expiring exactly now is kept.
expire_row_kept_now(expire_value, t, now) ==
    expire_value.null \/ t.ret < 0 \/ t.num >= now

\* The condition under which the loop of sql_dict_result_next_row breaks:
\* t is what str_to_time made of expire_value.
expire_row_kept(expire_value, t, now) ==
    expire_value.null \/ t.ret < 0 \/ t.num > now

\* sql_dict_result_next_row with the result's cursor before row i (1-based):
\* [ret, row], row being the row the cursor is left on (one past the last
\* row at the end, the last row fetched when more rows are to be fetched).
\* The driver's sql_result_next_row gives the rows fetched in order, then
\* SQL_RESULT_NEXT_MORE while rows remain unfetched, else 0, or -1 for a
\* failed query.
RECURSIVE sql_dict_result_next_row(_, _, _, _)
sql_dict_result_next_row(map, result, now, i) ==
    IF i > result.fetched
    THEN IF result.fetched < Len(result.rows)
         THEN [ret |-> SQL_RESULT_NEXT_MORE, row |-> result.fetched]
         ELSE [ret |-> IF result.failed THEN -1 ELSE 0,
               row |-> Len(result.rows) + 1]
    ELSE IF map.expire_field = NoField
    THEN [ret |-> 1, row |-> i]
    ELSE IF expire_row_kept(sql_result_get_field_value(result.rows[i], 0),
                str_to_time(sql_result_get_field_value(result.rows[i],
                                                       0).str), now)
    THEN [ret |-> 1, row |-> i]
    ELSE \* expired - jump to the next row
         sql_dict_result_next_row(map, result, now, i + 1)

\* struct dict_lookup_result (for the synchronous call: its return value,
\* *values_r and *error_r).  row is the result row the values were decoded
\* from, 0 for none.
LookupResult(ret, values, err, row) ==
    [ret |-> ret, values |-> values, error |-> err, row |-> row]

\* sql_dict_lookup from "result = sql_statement_query_s" on: n is what
\* sql_dict_result_next_row returned.
lookup_result(map, result, n) ==
    IF n.ret < 0
    THEN LookupResult(-1, <<>>,
             Error("dict sql lookup failed", <<>>, "backend"), 0)
    ELSE IF n.ret > 0
    THEN LookupResult(n.ret,
             sql_dict_result_unescape_values(map, result.rows[n.row]),
             NULL, n.row)
    ELSE LookupResult(0, <<>>, NULL, 0)

\* sql_dict_lookup_async_callback up to "ctx->callback": n is what
\* sql_dict_result_next_row returned, values the decoded row.
lookup_async_result(n, values, row) ==
    IF n.ret < 0
    THEN LookupResult(-1, <<>>, Error("backend", <<>>, ""), 0)
    ELSE IF n.ret > 0
    THEN IF values[1].null
         THEN \* NULL value returned: treated as "not found"
              LookupResult(0, values, NULL, row)
         ELSE LookupResult(n.ret, values, NULL, row)
    ELSE LookupResult(0, <<>>, NULL, 0)

\* Mutation of lookup_async_failed: the caller is not told.
lookup_async_failed_silent(q) ==
    lookup_results' = lookup_results

\* The branch of sql_dict_lookup_async taken when sql_lookup_get_query
\* failed: the callback is called with ret -1 before the call returns.
lookup_async_failed(q) ==
    lookup_results' = Append(lookup_results, LookupResult(-1, <<>>, q.error, 0))

\* sql_statement_query_s / sql_statement_query for the SELECT of a lookup
\* in map: answer holds the table rows the WHERE clause selects and whether
\* the query fails after them; each result row is the row's columns in
\* SELECT order.
lookup_query_result(map, answer) ==
    [rows |-> [i \in 1..Len(answer.rows) |->
                  IF map.expire_field # NoField
                  THEN <<answer.rows[i].expire>> \o answer.rows[i].values
                  ELSE answer.rows[i].values],
     failed |-> answer.failed, fetched |-> Len(answer.rows)]

\* The rows and results the backend may answer with.
ExpireValues ==
    { SqlNull, SqlStr(<<"9", "9">>), SqlStr(<<"1", "0", "0">>),
      SqlStr(<<"1", "0", "1">>), SqlStr(<<"x">>) }

ResultRows ==
    [expire : ExpireValues, values : {<<SqlNull>>, <<SqlStr(<<"7">>)>>}]

RECURSIVE RowLists(_)
RowLists(n) ==
    IF n = 0 THEN {<<>>}
    ELSE LET shorter == RowLists(n - 1)
         IN  shorter \cup {Append(l, r) : l \in shorter, r \in ResultRows}

LookupKeys == {KeyBytes1, KeyCount1, KeyBytesX, KeyPrivCount, KeyUnmapped}

InitLookup ==
    /\ db_flags = {}
    /\ op_set \in ReadSettings
    /\ TxnInit
    /\ MatchIdle
    /\ lookup_key = <<>>
    /\ lookup_state = "idle"
    /\ lookup_map = 0
    /\ lookup_callback = "NULL"
    /\ lookup_stmts = <<>>
    /\ sql_result \in [rows : RowLists(MaxResultRows), failed : BOOLEAN]
    /\ lookup_results = <<>>
    /\ IterIdle
    /\ StoreIdle
    /\ ScramIdle

\* sql_dict_lookup; q is what sql_lookup_get_query returned.
sql_dict_lookup(key, q) ==
    /\ lookup_key' = key
    /\ lookup_state' = "done"
    /\ lookup_map' = q.map
    /\ IF q.ret < 0
       THEN /\ lookup_results' =
                  Append(lookup_results, LookupResult(-1, <<>>, q.error, 0))
            /\ UNCHANGED lookup_stmts
       ELSE /\ lookup_stmts' = Append(lookup_stmts, q.stmt)
            /\ lookup_results' =
                  Append(lookup_results,
                      lookup_result(Maps[q.map],
                          lookup_query_result(Maps[q.map], sql_result),
                          sql_dict_result_next_row(Maps[q.map],
                              lookup_query_result(Maps[q.map], sql_result),
                              ioloop_time, 1)))
    /\ UNCHANGED <<txn_vars, match_vars, iter_vars, store_vars, scram_vars, lookup_callback, sql_result>>

Lookup(key) ==
    /\ lookup_state = "idle"
    /\ sql_dict_lookup(key, sql_lookup_get_query(op_set, key))

\* sql_dict_lookup_async; q is what sql_lookup_get_query returned.
sql_dict_lookup_async(key, q) ==
    /\ lookup_key' = key
    /\ lookup_callback' = "set"
    /\ IF q.ret < 0
       THEN /\ lookup_async_failed(q)
            /\ lookup_state' = "done"
            /\ UNCHANGED <<lookup_map, lookup_stmts>>
       ELSE /\ lookup_map' = q.map
            /\ lookup_stmts' = Append(lookup_stmts, q.stmt)
            /\ lookup_state' = "pending"
            /\ UNCHANGED lookup_results
    /\ UNCHANGED <<txn_vars, match_vars, iter_vars, store_vars, scram_vars, sql_result>>

LookupAsync(key) ==
    /\ lookup_state = "idle"
    /\ sql_dict_lookup_async(key, sql_lookup_get_query(op_set, key))

\* sql_dict_lookup_async_callback with result.ret = n.ret; the driver calls
\* it once for the query sent.
sql_dict_lookup_async_callback(map, n) ==
    /\ lookup_results' =
           Append(lookup_results,
               lookup_async_result(n,
                   IF n.ret > 0
                   THEN sql_dict_result_unescape_values(map,
                            lookup_query_result(map, sql_result).rows[n.row])
                   ELSE <<>>,
                   n.row))
    /\ lookup_state' = "done"
    /\ UNCHANGED <<txn_vars, match_vars, iter_vars, store_vars, scram_vars, lookup_key, lookup_map, lookup_callback, lookup_stmts, sql_result>>

LookupAsyncCallback ==
    /\ lookup_state = "pending"
    /\ sql_dict_lookup_async_callback(Maps[lookup_map],
           sql_dict_result_next_row(Maps[lookup_map],
               lookup_query_result(Maps[lookup_map], sql_result),
               ioloop_time, 1))

NextLookup ==
    \/ \E key \in LookupKeys : Lookup(key)
    \/ \E key \in LookupKeys : LookupAsync(key)
    \/ LookupAsyncCallback

SpecLookup == InitLookup /\ [][NextLookup]_vars

\* The driver delivers the result of every query it was sent.
SpecLookupFair == SpecLookup /\ WF_vars(LookupAsyncCallback)

\* ------------------------------------------------------------------------
\* The backend's tables and its answer to a SELECT
\* ------------------------------------------------------------------------

MaxStored == 2

\* Map lists for iteration: patterns ending in a variable, a private one, one
\* with an expire column; and a list whose two maps both match shared/q/.
\* Every map has its own table.
IterMaps1 ==
    << Map(DICT_PATH_SHARED \o <<"q", "/", "$">>, "t1",
           <<Field("k", "STRING")>>, <<"v">>, <<"STRING">>, "username",
           NoField),
       Map(DICT_PATH_PRIVATE \o <<"q", "/", "$">>, "t2",
           <<Field("k", "STRING")>>, <<"v">>, <<"STRING">>, "owner",
           NoField),
       Map(DICT_PATH_SHARED \o <<"e", "/", "$">>, "t3",
           <<Field("k", "STRING")>>, <<"v">>, <<"STRING">>, "username",
           "expire") >>

IterMaps2 ==
    << Map(DICT_PATH_SHARED \o <<"q", "/", "$", "/", "$">>, "t4",
           <<Field("f1", "STRING"), Field("f2", "STRING")>>, <<"v">>,
           <<"STRING">>, "username", NoField),
       Map(DICT_PATH_SHARED \o <<"q", "/", "$">>, "t1",
           <<Field("k", "STRING")>>, <<"v">>, <<"STRING">>, "username",
           NoField) >>

IterMapLists == {IterMaps1, IterMaps2}

\* What a committed set(key, value) of user username left in its table:
\* expire is the expire column written (NULL without expire_secs).
Entry(key, value, expire, username) ==
    [key |-> key, value |-> value, expire |-> expire, username |-> username]

\* The entries the tables are filled from.
AllEntries ==
    << Entry(DICT_PATH_SHARED \o <<"q", "/", "a">>, <<"1">>, SqlNull, <<>>),
       Entry(DICT_PATH_SHARED \o <<"q", "/", "a", "/", "b">>, <<"2">>,
             SqlNull, <<>>),
       Entry(DICT_PATH_SHARED \o <<"q", "/", "b">>, <<"3">>, SqlNull, <<>>),
       Entry(DICT_PATH_PRIVATE \o <<"q", "/", "a">>, <<"4">>, SqlNull,
             <<"b", "o", "b">>),
       Entry(DICT_PATH_PRIVATE \o <<"q", "/", "a", "/", "b">>, <<"5">>,
             SqlNull, <<"b", "o", "b">>),
       Entry(DICT_PATH_PRIVATE \o <<"q", "/", "c">>, <<"6">>, SqlNull,
             <<"e", "v", "e">>),
       Entry(DICT_PATH_SHARED \o <<"e", "/", "a">>, <<"7">>,
             SqlStr(<<"1", "0", "1">>), <<>>),
       Entry(DICT_PATH_SHARED \o <<"e", "/", "b">>, <<"7">>,
             SqlStr(<<"1", "0", "1">>), <<>>),
       Entry(DICT_PATH_SHARED \o <<"e", "/", "c">>, <<"8">>,
             SqlStr(<<"1", "0", "0">>), <<>>) >>

\* The members of a set of entry indexes, lowest first.
RECURSIVE EntrySeq(_)
EntrySeq(indexes) ==
    IF indexes = {} THEN <<>>
    ELSE <<CHOOSE i \in indexes : \A j \in indexes : i <= j>>
         \o EntrySeq(indexes \ {CHOOSE i \in indexes :
                                    \A j \in indexes : i <= j})

\* The table contents drawn: up to MaxStored entries that maps can store.
EntryLists(maps) ==
    { EntrySeq(indexes) :
        indexes \in {x \in SUBSET (1..Len(AllEntries)) :
                       /\ Cardinality(x) <= MaxStored
                       /\ \A i \in x :
                             sql_dict_find_map(maps, AllEntries[i].key).map
                                 # 0} }

\* The columns of a map's table.
ColumnNames(map) ==
    {map.pattern_fields[i].name : i \in 1..Len(map.pattern_fields)}
    \cup {map.value_field[i] : i \in 1..Len(map.value_field)}
    \cup {map.username_field}
    \cup (IF map.expire_field # NoField THEN {map.expire_field} ELSE {})

\* The row the INSERT of sql_dict_set_query leaves for entry e, whose key
\* map matched with pattern values: the pattern fields, the value, the
\* username for a private key, the expire column.
StoredRow(map, values, e, index) ==
    [table |-> map.table, entry |-> index,
     cols |-> [n \in ColumnNames(map) |->
                 IF \E i \in 1..Len(map.pattern_fields) :
                        map.pattern_fields[i].name = n
                 THEN SqlStr(values[CHOOSE i \in 1..Len(map.pattern_fields) :
                                       map.pattern_fields[i].name = n])
                 ELSE IF n = map.value_field[1] THEN SqlStr(e.value)
                 ELSE IF n = map.expire_field THEN e.expire
                 ELSE IF IsPrivate(e.key) THEN SqlStr(e.username)
                 ELSE SqlNull]]

\* The rows of all tables, in table order.
DbRows(maps, entries) ==
    [i \in 1..Len(entries) |->
        StoredRow(maps[sql_dict_find_map(maps, AllEntries[entries[i]].key).map],
                  sql_dict_find_map(maps, AllEntries[entries[i]].key).values,
                  AllEntries[entries[i]], entries[i])]

\* str LIKE pattern, with % for any run of characters.
RECURSIVE Like(_, _)
Like(str, pattern) ==
    IF pattern = <<>> THEN str = <<>>
    ELSE IF Head(pattern) = "%"
    THEN \E k \in 0..Len(str) :
            Like(SubSeq(str, k + 1, Len(str)), Tail(pattern))
    ELSE str # <<>> /\ Head(str) = Head(pattern)
         /\ Like(Tail(str), Tail(pattern))

\* A parsed query: ok is false for text the backend rejects or parameters
\* that do not fit the placeholders.
Parsed(ok, preds, params, rest) ==
    [ok |-> ok, preds |-> preds, params |-> params, rest |-> rest]

RECURSIVE ParsePredicate(_, _, _)
RECURSIVE ParseAfterPredicate(_, _, _)

\* tokens starts at a predicate: column, operator, placeholder or literal.
ParsePredicate(tokens, params, preds) ==
    IF Len(tokens) < 3 \/ tokens[2] \notin {"=", "<=", "LIKE", "NOT LIKE"}
    THEN Parsed(FALSE, preds, params, tokens)
    ELSE IF tokens[3] = "?"
    THEN IF params = <<>>
         THEN Parsed(FALSE, preds, params, tokens)
         ELSE ParseAfterPredicate(SubSeq(tokens, 4, Len(tokens)),
                  Tail(params),
                  Append(preds, [col |-> tokens[1], op |-> tokens[2],
                                 param |-> Head(params)]))
    ELSE IF tokens[3] = "'%'"
    THEN ParseAfterPredicate(SubSeq(tokens, 4, Len(tokens)), params,
             Append(preds, [col |-> tokens[1], op |-> tokens[2],
                            param |-> Param("STRING", <<"%">>, 0)]))
    ELSE IF tokens[3] = "'%/%'"
    THEN ParseAfterPredicate(SubSeq(tokens, 4, Len(tokens)), params,
             Append(preds, [col |-> tokens[1], op |-> tokens[2],
                            param |-> Param("STRING", <<"%", "/", "%">>,
                                            0)]))
    ELSE Parsed(FALSE, preds, params, tokens)

\* tokens starts after a predicate: AND and another predicate, or the end
\* of the WHERE clause.
ParseAfterPredicate(tokens, params, preds) ==
    IF tokens = <<>> \/ Head(tokens) \in {"ORDER BY", "LIMIT"}
    THEN Parsed(TRUE, preds, params, tokens)
    ELSE IF Head(tokens) = "AND"
    THEN ParsePredicate(Tail(tokens), params, preds)
    ELSE Parsed(FALSE, preds, params, tokens)

\* tokens is what follows the table name.
ParseWhere(tokens, params) ==
    IF tokens = <<>> \/ Head(tokens) \in {"ORDER BY", "LIMIT"}
    THEN Parsed(TRUE, <<>>, params, tokens)
    ELSE IF Head(tokens) = "WHERE"
    THEN ParsePredicate(Tail(tokens), params, <<>>)
    ELSE Parsed(FALSE, <<>>, params, tokens)

\* The columns between SELECT and FROM, from being the position of FROM.
SelectColumns(query, from) ==
    [i \in 1..((from - 1) \div 2) |-> query[2 * i]]

\* The row count of a LIMIT clause in the rest of the query, 0 for none.
LimitOf(rest) ==
    IF strchr(rest, 1, "LIMIT") = 0 THEN 0
    ELSE DigitValue(rest[strchr(rest, 1, "LIMIT") + 1])

\* Whether row satisfies the predicate.
PredicateHolds(row, pred) ==
    /\ pred.col \in DOMAIN row.cols
    /\ ~row.cols[pred.col].null
    /\ CASE pred.op = "=" ->
               IF pred.param.value_type = "STRING"
               THEN row.cols[pred.col].str = pred.param.value_str
               ELSE str_to_int64(row.cols[pred.col].str).num
                        = pred.param.value_int64
          [] pred.op = "<=" ->
               /\ str_to_int64(row.cols[pred.col].str).ret = 0
               /\ str_to_int64(row.cols[pred.col].str).num
                      <= pred.param.value_int64
          [] pred.op = "LIKE" ->
               Like(row.cols[pred.col].str, pred.param.value_str)
          [] pred.op = "NOT LIKE" ->
               ~Like(row.cols[pred.col].str, pred.param.value_str)

\* The first n members of seq, all of them for n = 0.
FirstRows(seq, n) ==
    IF n = 0 \/ n >= Len(seq) THEN seq ELSE SubSeq(seq, 1, n)

\* The rows of table that satisfy the predicates, cut to limit.
SelectedRows(rows, table, preds, limit) ==
    FirstRows(SelectSeq(rows, LAMBDA r :
                  /\ r.table = table
                  /\ \A i \in 1..Len(preds) : PredicateHolds(r, preds[i])),
              limit)

\* The result for the parsed query: the selected columns of the selected
\* rows in table order, with the entry each row stems from.
QueryResult(columns, selected) ==
    [rows |-> [i \in 1..Len(selected) |->
                  [j \in 1..Len(columns) |-> selected[i].cols[columns[j]]]],
     entries |-> [i \in 1..Len(selected) |-> selected[i].entry],
     failed |-> FALSE]

\* A query the backend rejects.
QueryFailed == [rows |-> <<>>, entries |-> <<>>, failed |-> TRUE]

\* The backend's answer to stmt, w being its parsed WHERE clause and from
\* the position of FROM: a result, or a failure for malformed text, left-over
\* or missing parameters and unknown columns.
query_parsed(rows, stmt, from, w) ==
    IF ~w.ok \/ w.params # <<>>
    THEN QueryFailed
    ELSE IF \E r \in 1..Len(rows) :
               /\ rows[r].table = stmt.query[from + 1]
               /\ \E j \in 1..((from - 1) \div 2) :
                      stmt.query[2 * j] \notin DOMAIN rows[r].cols
    THEN QueryFailed
    ELSE QueryResult(SelectColumns(stmt.query, from),
             SelectedRows(rows, stmt.query[from + 1], w.preds,
                          LimitOf(w.rest)))

\* sql_statement_query_s / sql_statement_query over the tables rows.
sql_statement_query(rows, stmt) ==
    query_parsed(rows, stmt, strchr(stmt.query, 1, "FROM"),
        ParseWhere(SubSeq(stmt.query, strchr(stmt.query, 1, "FROM") + 2,
                          Len(stmt.query)),
                   stmt.params))

\* ------------------------------------------------------------------------
\* Iteration
\* ------------------------------------------------------------------------

\* enum dict_iterate_flags
DICT_ITERATE_FLAG_RECURSE == "RECURSE"

DICT_ITERATE_FLAG_SORT_BY_KEY == "SORT_BY_KEY"

DICT_ITERATE_FLAG_SORT_BY_VALUE == "SORT_BY_VALUE"

DICT_ITERATE_FLAG_NO_VALUE == "NO_VALUE"

DICT_ITERATE_FLAG_EXACT_KEY == "EXACT_KEY"

DICT_ITERATE_FLAG_ASYNC == "ASYNC"

\* Mutation of IterCtx: the context starts with allow_null_map set.
IterCtx_null_allowed(path, flags, max_rows, page) ==
    [state |-> "open", path |-> path, flags |-> flags, page |-> page,
     deinit_ret |-> 0, deinit_error |-> NULL, result_refs |-> 0,
     max_rows |-> max_rows, row_count |-> 0, has_more |-> FALSE,
     error |-> NULL, iter_query_sent |-> FALSE, allow_null_map |-> TRUE,
     result |-> <<>>, map |-> 0, next_map_idx |-> 0, key_prefix_len |-> 0,
     pattern_prefix_len |-> 0, sql_fields_start_idx |-> 0,
     destroyed |-> FALSE, pending |-> <<>>, pool_refs |-> 1,
     async_callbacks |-> 0, last_ret |-> "NONE", panic |-> ""]

\* struct sql_dict_iterate_context as sql_dict_iterate_init returns it.
\* result is <<>> for NULL or <<the result with its cursor pos>>; pending
\* holds the query sent whose callback is outstanding; pool_refs is the
\* reference count of ctx->pool; async_callbacks counts the calls of
\* ctx->ctx.async_callback; last_ret is what the last iterate call
\* returned; panic names a failed assertion; page is the number of rows
\* the driver fetches at a time (0: all); deinit_ret and deinit_error are
\* what sql_dict_iterate_deinit returned; result_refs counts the
\* references the context holds on results.
IterCtx(path, flags, max_rows, page) ==
    [state |-> "open", path |-> path, flags |-> flags, page |-> page,
     deinit_ret |-> 0, deinit_error |-> NULL, result_refs |-> 0,
     max_rows |-> max_rows, row_count |-> 0, has_more |-> FALSE,
     error |-> NULL, iter_query_sent |-> FALSE, allow_null_map |-> FALSE,
     result |-> <<>>, map |-> 0, next_map_idx |-> 0, key_prefix_len |-> 0,
     pattern_prefix_len |-> 0, sql_fields_start_idx |-> 0,
     destroyed |-> FALSE, pending |-> <<>>, pool_refs |-> 1,
     async_callbacks |-> 0, last_ret |-> "NONE", panic |-> ""]

RECURSIVE iterate_find_next_map_loop(_, _, _)

\* Mutation of iterate_find_next_map_try: next_map_idx is left on the
\* first map found, so that the map is found a second time.
iterate_find_next_map_try_stays(c, maps, i, m) ==
    IF /\ m.ret
       /\ \/ DICT_ITERATE_FLAG_RECURSE \in c.flags
          \/ Len(m.values) + 1 >= Len(maps[i + 1].pattern_fields)
    THEN [map |-> i + 1, values |-> m.values,
          c |-> [c EXCEPT !.key_prefix_len = m.path_len,
                          !.pattern_prefix_len = m.pat_len,
                          !.next_map_idx = IF c.allow_null_map THEN i + 1
                                           ELSE i]]
    ELSE iterate_find_next_map_loop(c, maps, i + 1)

\* The body of the loop of sql_dict_iterate_find_next_map for the 0-based
\* index i: m is what dict_sql_map_match returned for maps[i].
iterate_find_next_map_try(c, maps, i, m) ==
    IF /\ m.ret
       /\ \/ DICT_ITERATE_FLAG_RECURSE \in c.flags
          \/ Len(m.values) + 1 >= Len(maps[i + 1].pattern_fields)
    THEN [map |-> i + 1, values |-> m.values,
          c |-> [c EXCEPT !.key_prefix_len = m.path_len,
                          !.pattern_prefix_len = m.pat_len,
                          !.next_map_idx = i + 1]]
    ELSE iterate_find_next_map_loop(c, maps, i + 1)

iterate_find_next_map_loop(c, maps, i) ==
    IF i >= Len(maps)
    THEN [map |-> 0, values |-> <<>>, c |-> c]
    ELSE iterate_find_next_map_try(c, maps, i,
             dict_sql_map_match(maps[i + 1], c.path, TRUE,
                                DICT_ITERATE_FLAG_RECURSE \in c.flags))

\* sql_dict_iterate_find_next_map: [map (1-based index, 0 for NULL),
\* values, c (the context after the call)].
sql_dict_iterate_find_next_map(c, maps) ==
    iterate_find_next_map_loop(c, maps, c.next_map_idx)

\* What sql_dict_iterate_build_next_query hands back.
BuiltIter(ret, c, stmt, err, panic) ==
    [ret |-> ret, c |-> c, stmt |-> stmt, error |-> err, panic |-> panic]

\* The names of the pattern fields from the 0-based index i on.
FieldNamesFrom(map, i) ==
    [j \in 1..(Len(map.pattern_fields) - i) |->
        map.pattern_fields[i + j].name]

\* "SELECT ... FROM table" of sql_dict_iterate_build_next_query with the
\* missing fields starting at the 0-based index i.
iterate_select(c, map, i) ==
    <<"SELECT">>
    \o CommaJoin((IF map.expire_field # NoField
                  THEN <<map.expire_field>> ELSE <<>>)
                 \o (IF DICT_ITERATE_FLAG_NO_VALUE \notin c.flags
                     THEN map.value_field ELSE <<>>)
                 \o FieldNamesFrom(map, i))
    \o <<"FROM", map.table>>

\* recurse_type of sql_dict_iterate_build_next_query
iterate_recurse_type(flags) ==
    IF DICT_ITERATE_FLAG_RECURSE \in flags THEN "FULL"
    ELSE IF DICT_ITERATE_FLAG_EXACT_KEY \in flags THEN "NONE"
    ELSE "ONE"

\* ORDER BY of sql_dict_iterate_build_next_query
iterate_order_by(c, map) ==
    IF DICT_ITERATE_FLAG_SORT_BY_KEY \in c.flags
    THEN <<"ORDER BY">> \o CommaJoin(FieldNamesFrom(map, 0))
    ELSE IF DICT_ITERATE_FLAG_SORT_BY_VALUE \in c.flags
    THEN <<"ORDER BY">> \o CommaJoin(map.value_field)
    ELSE <<>>

\* Mutation of iterate_build_where: the LIMIT is max_rows whatever was
\* returned before.
iterate_build_where_whole_limit(c, map, map_idx, w) ==
    IF w.ret < 0
    THEN BuiltIter(-1, c, Stmt(<<>>, <<>>), w.error, "")
    ELSE IF c.max_rows > 0 /\ ~(c.row_count < c.max_rows)
    THEN BuiltIter(-1, c, Stmt(<<>>, <<>>), "",
                   "ctx->ctx.row_count < ctx->ctx.max_rows")
    ELSE BuiltIter(1, [c EXCEPT !.map = map_idx],
             Stmt(w.query \o iterate_order_by(c, map)
                  \o (IF c.max_rows > 0
                      THEN <<"LIMIT", Digits[c.max_rows + 1]>>
                      ELSE <<>>),
                  w.params),
             "", "")

\* The end of sql_dict_iterate_build_next_query: w is what
\* sql_dict_where_build built.
iterate_build_where(c, map, map_idx, w) ==
    IF w.ret < 0
    THEN BuiltIter(-1, c, Stmt(<<>>, <<>>), w.error, "")
    ELSE IF c.max_rows > 0 /\ ~(c.row_count < c.max_rows)
    THEN BuiltIter(-1, c, Stmt(<<>>, <<>>), "",
                   "ctx->ctx.row_count < ctx->ctx.max_rows")
    ELSE BuiltIter(1, [c EXCEPT !.map = map_idx],
             Stmt(w.query \o iterate_order_by(c, map)
                  \o (IF c.max_rows > 0
                      THEN <<"LIMIT", Digits[c.max_rows - c.row_count + 1]>>
                      ELSE <<>>),
                  w.params),
             "", "")

\* sql_dict_iterate_build_next_query from "get all missing fields" on: i
\* is the number of pattern values.
iterate_build_select(c, username, map, map_idx, values, i) ==
    IF i = Len(map.pattern_fields) /\ ~(i > 0)
    THEN BuiltIter(-1, c, Stmt(<<>>, <<>>), "", "i > 0")
    ELSE iterate_build_where(
             [c EXCEPT !.sql_fields_start_idx =
                  IF i = Len(map.pattern_fields) THEN i - 1 ELSE i],
             map, map_idx,
             sql_dict_where_build(username, map, values, IsPrivate(c.path),
                 iterate_recurse_type(c.flags),
                 iterate_select(c, map,
                     IF i = Len(map.pattern_fields) THEN i - 1 ELSE i),
                 <<>>))

\* Mutation of iterate_build_found: a NULL map always ends the iteration
\* without an error.
iterate_build_found_null_ok(username, maps, f) ==
    IF f.map = 0
    THEN BuiltIter(0, f.c, Stmt(<<>>, <<>>), "", "")
    ELSE iterate_build_select(
             [f.c EXCEPT !.result = <<>>,
                         !.result_refs = IF f.c.result # <<>> THEN @ - 1
                                         ELSE @],
             username, maps[f.map], f.map, f.values, Len(f.values))

\* sql_dict_iterate_build_next_query from "if (map == NULL)" on: f is
\* what sql_dict_iterate_find_next_map returned.
iterate_build_found(username, maps, f) ==
    IF f.map = 0
    THEN IF ~f.c.allow_null_map
         THEN BuiltIter(-1, f.c, Stmt(<<>>, <<>>), "Invalid/unmapped path",
                        "")
         ELSE BuiltIter(0, f.c, Stmt(<<>>, <<>>), "", "")
    ELSE iterate_build_select(
             [f.c EXCEPT !.result = <<>>,
                         !.result_refs = IF f.c.result # <<>> THEN @ - 1
                                         ELSE @],
             username, maps[f.map], f.map, f.values, Len(f.values))

\* sql_dict_iterate_build_next_query
sql_dict_iterate_build_next_query(c, maps, username) ==
    iterate_build_found(username, maps,
                        sql_dict_iterate_find_next_map(c, maps))

\* A result with its cursor before the first row, of a driver that fetches
\* page rows at a time (all of them when page is 0).
Cursor(result, page) ==
    [rows |-> result.rows, entries |-> result.entries,
     failed |-> result.failed, pos |-> 0,
     fetched |-> IF page = 0 \/ page >= Len(result.rows)
                 THEN Len(result.rows) ELSE page]

\* sql_result_more / sql_result_more_s: the result with the next page
\* fetched.
sql_result_more(result, page) ==
    [result EXCEPT !.fetched = IF result.fetched + page >= Len(result.rows)
                               THEN Len(result.rows)
                               ELSE result.fetched + page]

\* A request whose callback is outstanding: the statement of
\* sql_statement_query, or for sql_result_more the result it continues.
PendingQuery(stmt) == [stmt |-> stmt, more |-> <<>>]

PendingMore(result) == [stmt |-> Stmt(<<>>, <<>>), more |-> <<result>>]

\* What sql_dict_iterate_next_query hands back.
Queried(ret, c, stmts) == [ret |-> ret, c |-> c, stmts |-> stmts]

\* sql_dict_iterate_next_query: b is what the query builder returned, rows
\* the tables, inline whether the driver calls sql_dict_iterate_callback
\* before sql_statement_query returns.
sql_dict_iterate_next_query(b, rows, stmts, inline) ==
    IF b.panic # ""
    THEN Queried(-1, [b.c EXCEPT !.panic = b.panic], stmts)
    ELSE IF b.ret = 0
    THEN Queried(0, b.c, stmts)
    ELSE IF b.ret < 0
    THEN Queried(-1,
             [b.c EXCEPT !.error = Error("sql dict iterate failed for",
                                         b.c.path, b.error)],
             stmts)
    ELSE IF DICT_ITERATE_FLAG_ASYNC \notin b.c.flags
    THEN Queried(1,
             [b.c EXCEPT !.result =
                  <<Cursor(sql_statement_query(rows, b.stmt), b.c.page)>>,
                         !.result_refs = @ + 1],
             Append(stmts, b.stmt))
    ELSE IF b.c.result # <<>>
    THEN Queried(-1, [b.c EXCEPT !.panic = "ctx->result == NULL"], stmts)
    ELSE IF inline
    THEN \* the callback runs with synchronous_result set: the result is
         \* stored, the caller's async_callback is not called
         Queried(1,
             [b.c EXCEPT !.result =
                  <<Cursor(sql_statement_query(rows, b.stmt), b.c.page)>>,
                         !.result_refs = @ + 1],
             Append(stmts, b.stmt))
    ELSE Queried(1,
             [b.c EXCEPT !.pending = <<PendingQuery(b.stmt)>>,
                        !.pool_refs = @ + 1],
             Append(stmts, b.stmt))

\* What sql_dict_iterate hands back: entry is the stored entry the row
\* stems from.
Iterated(ret, c, stmts, key, values, entry) ==
    [ret |-> ret, c |-> c, stmts |-> stmts, key |-> key, values |-> values,
     entry |-> entry]

RECURSIVE iterate_key_loop(_, _, _, _, _, _)

\* The loop "for (p = ctx->map->pattern + ctx->pattern_prefix_len; ...)"
\* of sql_dict_iterate from the 1-based pattern position p on: i is the
\* 0-based result column and sql_field_i the 0-based pattern field.
iterate_key_loop(map, row, p, i, sql_field_i, key) ==
    IF p > Len(map.pattern)
    THEN [key |-> key, panic |-> ""]
    ELSE IF map.pattern[p] # "$"
    THEN iterate_key_loop(map, row, p + 1, i, sql_field_i,
                          Append(key, map.pattern[p]))
    ELSE IF ~(i < Len(row))
    THEN [key |-> key, panic |-> "i < count"]
    ELSE IF ~(sql_field_i < Len(map.pattern_fields))
    THEN [key |-> key, panic |-> "array_idx"]
    ELSE iterate_key_loop(map, row, p + 1, i + 1, sql_field_i + 1,
             key \o sql_dict_result_unescape(
                        map.pattern_fields[sql_field_i + 1].value_type,
                        sql_result_get_field_value(row, i)).str)

\* "convert fetched row to dict key": the first key_prefix_len characters
\* of the path, a '/' unless they end in one, then the rest of the pattern.
iterate_key(c, map, row) ==
    iterate_key_loop(map, row, c.pattern_prefix_len + 1,
        IF DICT_ITERATE_FLAG_NO_VALUE \in c.flags THEN 0
        ELSE map.values_count,
        c.sql_fields_start_idx,
        IF c.key_prefix_len > 0 /\ c.path[c.key_prefix_len] # "/"
        THEN Append(SubSeq(c.path, 1, c.key_prefix_len), "/")
        ELSE SubSeq(c.path, 1, c.key_prefix_len))

\* The end of sql_dict_iterate: the cursor is on row number n and k is the
\* key built from it.
iterate_yield(c, map, stmts, n, k) ==
    IF k.panic # ""
    THEN Iterated(FALSE, [c EXCEPT !.panic = k.panic], stmts, <<>>, <<>>, 0)
    ELSE Iterated(TRUE, c, stmts, k.key,
             IF DICT_ITERATE_FLAG_NO_VALUE \notin c.flags
             THEN sql_dict_result_unescape_values(map, c.result[1].rows[n])
             ELSE <<>>,
             c.result[1].entries[n])

RECURSIVE sql_dict_iterate(_, _, _, _, _, _, _)

RECURSIVE iterate_fetch(_, _, _, _, _, _, _)

\* The body of the loop "while (ret == SQL_RESULT_NEXT_MORE)" of
\* sql_dict_iterate: the next page is fetched with sql_result_more_s, or
\* with sql_result_more, whose callback runs before it returns (inline)
\* or later; then the next row is read again.
iterate_more(c, maps, username, rows, now, stmts, inline) ==
    IF DICT_ITERATE_FLAG_ASYNC \in c.flags /\ ~inline
    THEN \* get more results asynchronously
         Iterated(FALSE,
             [c EXCEPT !.result = <<>>,
                       !.result_refs = @ - 1,
                       !.pending = <<PendingMore(
                                       sql_result_more(c.result[1], c.page))>>,
                       !.pool_refs = @ + 1,
                       !.has_more = TRUE],
             stmts, <<>>, <<>>, 0)
    ELSE iterate_fetch(
             [c EXCEPT !.result[1] = sql_result_more(c.result[1], c.page)],
             maps, username, rows, now, stmts, inline)

\* Mutation of iterate_row: the next map is tried whatever the flags.
iterate_row_exact_goes_on(c, maps, username, rows, now, stmts, inline, n) ==
    IF n.ret = SQL_RESULT_NEXT_MORE
    THEN iterate_more(c, maps, username, rows, now, stmts, inline)
    ELSE IF n.ret = 0
    THEN sql_dict_iterate(
             [c EXCEPT !.iter_query_sent = FALSE,
                       !.allow_null_map = TRUE],
             maps, username, rows, now, stmts, inline)
    ELSE IF n.ret < 0
    THEN Iterated(FALSE,
             [c EXCEPT !.error = Error("dict sql iterate failed", <<>>,
                                       "backend")],
             stmts, <<>>, <<>>, 0)
    ELSE iterate_yield(c, maps[c.map], stmts, n.row,
                       iterate_key(c, maps[c.map], c.result[1].rows[n.row]))

\* sql_dict_iterate after sql_dict_result_next_row returned n.
iterate_row(c, maps, username, rows, now, stmts, inline, n) ==
    IF n.ret = SQL_RESULT_NEXT_MORE
    THEN iterate_more(c, maps, username, rows, now, stmts, inline)
    ELSE IF n.ret = 0
    THEN IF DICT_ITERATE_FLAG_EXACT_KEY \in c.flags
         THEN Iterated(FALSE, c, stmts, <<>>, <<>>, 0)
         ELSE sql_dict_iterate(
                  [c EXCEPT !.iter_query_sent = FALSE,
                            !.allow_null_map = TRUE],
                  maps, username, rows, now, stmts, inline)
    ELSE IF n.ret < 0
    THEN Iterated(FALSE,
             [c EXCEPT !.error = Error("dict sql iterate failed", <<>>,
                                       "backend")],
             stmts, <<>>, <<>>, 0)
    ELSE iterate_yield(c, maps[c.map], stmts, n.row,
                       iterate_key(c, maps[c.map], c.result[1].rows[n.row]))

\* sql_dict_iterate from "if (ctx->result == NULL)" on.
iterate_fetch(c, maps, username, rows, now, stmts, inline) ==
    IF c.result = <<>>
    THEN \* wait for async lookup to finish
         IF DICT_ITERATE_FLAG_ASYNC \notin c.flags
         THEN Iterated(FALSE, [c EXCEPT !.panic = "DICT_ITERATE_FLAG_ASYNC"],
                       stmts, <<>>, <<>>, 0)
         ELSE Iterated(FALSE, [c EXCEPT !.has_more = TRUE], stmts, <<>>,
                       <<>>, 0)
    ELSE iterate_row(
             [c EXCEPT !.result[1].pos =
                  sql_dict_result_next_row(maps[c.map], c.result[1], now,
                                           c.result[1].pos + 1).row],
             maps, username, rows, now, stmts, inline,
             sql_dict_result_next_row(maps[c.map], c.result[1], now,
                                      c.result[1].pos + 1))

\* sql_dict_iterate after sql_dict_iterate_next_query returned q.
iterate_queried(q, maps, username, rows, now, inline) ==
    IF q.ret <= 0
    THEN Iterated(FALSE, q.c, q.stmts, <<>>, <<>>, 0)
    ELSE iterate_fetch(q.c, maps, username, rows, now, q.stmts, inline)

\* sql_dict_iterate
sql_dict_iterate(c, maps, username, rows, now, stmts, inline) ==
    IF c.error # NULL
    THEN Iterated(FALSE, [c EXCEPT !.has_more = FALSE], stmts, <<>>, <<>>,
                  0)
    ELSE IF ~c.iter_query_sent
    THEN iterate_queried(
             sql_dict_iterate_next_query(
                 sql_dict_iterate_build_next_query(
                     [c EXCEPT !.has_more = FALSE,
                               !.iter_query_sent = TRUE],
                     maps, username),
                 rows, stmts, inline),
             maps, username, rows, now, inline)
    ELSE iterate_fetch([c EXCEPT !.has_more = FALSE], maps, username, rows,
                       now, stmts, inline)

\* dict_iterate of lib-dict around the driver's iterate: nothing is
\* fetched once max_rows rows were returned, and a returned row is
\* counted.
dict_iterate(c, maps, username, rows, now, stmts, inline) ==
    IF c.max_rows > 0 /\ c.row_count >= c.max_rows
    THEN Iterated(FALSE, [c EXCEPT !.has_more = FALSE], stmts, <<>>, <<>>,
                  0)
    ELSE sql_dict_iterate(c, maps, username, rows, now, stmts, inline)

\* The paths iterated: the roots of the maps, a prefix that binds a
\* variable, the root of all shared keys and a path no map matches.
PathQ == DICT_PATH_SHARED \o <<"q", "/">>

PathQA == DICT_PATH_SHARED \o <<"q", "/", "a", "/">>

PathPrivQ == DICT_PATH_PRIVATE \o <<"q", "/">>

PathE == DICT_PATH_SHARED \o <<"e", "/">>

PathZ == DICT_PATH_SHARED \o <<"z", "/">>

IterPaths == {PathQ, PathQA, PathPrivQ, PathE, DICT_PATH_SHARED, PathZ}

IterFlags ==
    { {}, {DICT_ITERATE_FLAG_RECURSE}, {DICT_ITERATE_FLAG_EXACT_KEY},
      {DICT_ITERATE_FLAG_NO_VALUE},
      {DICT_ITERATE_FLAG_RECURSE, DICT_ITERATE_FLAG_SORT_BY_KEY},
      {DICT_ITERATE_FLAG_SORT_BY_VALUE},
      {DICT_ITERATE_FLAG_ASYNC},
      {DICT_ITERATE_FLAG_RECURSE, DICT_ITERATE_FLAG_ASYNC} }

\* The driver fetches all rows of a result at once, or MaxPage at a time.
MaxPage == 1

PageSizes == {0, MaxPage}

\* dict_iterate_set_limit: no limit, or one or two rows.
IterLimits == {0, 1, 2}

InitIterate ==
    /\ db_flags = {}
    /\ op_set \in ReadSettings
    /\ TxnInit
    /\ set_maps \in IterMapLists
    /\ match_path = <<>>
    /\ match_result = <<>>
    /\ LookupIdle
    /\ db_entries \in EntryLists(set_maps)
    /\ iter_ctx = [state |-> "none"]
    /\ iter_stmts = <<>>
    /\ iter_out = <<>>
    /\ StoreIdle
    /\ ScramIdle

\* sql_dict_iterate_init, and dict_iterate_set_limit
IterateInit(path, flags, max_rows, page) ==
    /\ iter_ctx.state = "none"
    /\ iter_ctx' = IterCtx(path, flags, max_rows, page)
    /\ UNCHANGED <<txn_vars, match_vars, lookup_vars, store_vars, scram_vars, db_entries, iter_stmts, iter_out>>

\* The state after an iterate call returned r.
Iterate_returned(r) ==
    /\ iter_ctx' = [r.c EXCEPT !.last_ret = IF r.ret THEN "TRUE" ELSE "FALSE",
                               !.row_count = IF r.ret THEN @ + 1 ELSE @]
    /\ iter_stmts' = r.stmts
    /\ iter_out' = IF r.ret
                   THEN Append(iter_out, [key |-> r.key, values |-> r.values,
                                          map |-> r.c.map, entry |-> r.entry])
                   ELSE iter_out
    /\ UNCHANGED <<txn_vars, match_vars, lookup_vars, store_vars, scram_vars, db_entries>>

\* dict_iterate: one call of the host.
Iterate(inline) ==
    /\ iter_ctx.state = "open"
    /\ iter_ctx.panic = ""
    /\ inline => DICT_ITERATE_FLAG_ASYNC \in iter_ctx.flags
    /\ Iterate_returned(dict_iterate(iter_ctx, set_maps, op_set.username,
                            DbRows(set_maps, db_entries), ioloop_time,
                            iter_stmts, inline))

\* Mutation of IterateCallback: the result is delivered whether or not the
\* context was destroyed.
IterateCallback_always_delivers ==
    /\ iter_ctx.state # "none"
    /\ iter_ctx.pending # <<>>
    /\ iter_ctx' =
           [iter_ctx EXCEPT
               !.result =
                   IF iter_ctx.pending[1].more # <<>>
                   THEN iter_ctx.pending[1].more
                   ELSE <<Cursor(sql_statement_query(
                                     DbRows(set_maps, db_entries),
                                     iter_ctx.pending[1].stmt),
                                 iter_ctx.page)>>,
               !.result_refs = @ + 1,
               !.async_callbacks = @ + 1,
               !.pending = <<>>,
               !.pool_refs = @ - 1]
    /\ UNCHANGED <<txn_vars, match_vars, lookup_vars, store_vars, scram_vars, db_entries, iter_stmts, iter_out>>

\* sql_dict_iterate_callback, called by the driver with the result of the
\* pending query.
IterateCallback ==
    /\ iter_ctx.state # "none"
    /\ iter_ctx.pending # <<>>
    /\ iter_ctx' =
           IF ~iter_ctx.destroyed
           THEN [iter_ctx EXCEPT
                    !.result =
                        IF iter_ctx.pending[1].more # <<>>
                        THEN iter_ctx.pending[1].more
                        ELSE <<Cursor(sql_statement_query(
                                          DbRows(set_maps, db_entries),
                                          iter_ctx.pending[1].stmt),
                                      iter_ctx.page)>>,
                    !.result_refs = @ + 1,
                    !.async_callbacks = @ + 1,
                    !.pending = <<>>,
                    !.pool_refs = @ - 1]
           ELSE [iter_ctx EXCEPT !.pending = <<>>, !.pool_refs = @ - 1]
    /\ UNCHANGED <<txn_vars, match_vars, lookup_vars, store_vars, scram_vars, db_entries, iter_stmts, iter_out>>

\* Mutation of IterateDeinit: the reference on ctx->pool is kept.
IterateDeinit_keeps_pool ==
    /\ iter_ctx.state = "open"
    /\ iter_ctx.panic = ""
    /\ iter_ctx' = [iter_ctx EXCEPT !.state = "deinit",
                                    !.deinit_ret =
                                        IF iter_ctx.error # NULL THEN -1
                                        ELSE 0,
                                    !.deinit_error = iter_ctx.error,
                                    !.result_refs =
                                        IF iter_ctx.result # <<>> THEN @ - 1
                                        ELSE @,
                                    !.result = <<>>,
                                    !.destroyed = TRUE]
    /\ UNCHANGED <<txn_vars, match_vars, lookup_vars, store_vars, scram_vars, db_entries, iter_stmts, iter_out>>

\* sql_dict_iterate_deinit
IterateDeinit ==
    /\ iter_ctx.state = "open"
    /\ iter_ctx.panic = ""
    /\ iter_ctx' = [iter_ctx EXCEPT !.state = "deinit",
                                    !.deinit_ret =
                                        IF iter_ctx.error # NULL THEN -1
                                        ELSE 0,
                                    !.deinit_error = iter_ctx.error,
                                    !.result_refs =
                                        IF iter_ctx.result # <<>> THEN @ - 1
                                        ELSE @,
                                    !.result = <<>>,
                                    !.destroyed = TRUE,
                                    !.pool_refs = @ - 1]
    /\ UNCHANGED <<txn_vars, match_vars, lookup_vars, store_vars, scram_vars, db_entries, iter_stmts, iter_out>>

NextIterate ==
    \/ \E path \in IterPaths, flags \in IterFlags, max_rows \in IterLimits,
          page \in PageSizes :
          IterateInit(path, flags, max_rows, page)
    \/ \E inline \in BOOLEAN : Iterate(inline)
    \/ IterateCallback
    \/ IterateDeinit

SpecIterate == InitIterate /\ [][NextIterate]_vars

\* Whether a call of iterate changes anything: it returns a row, sends a
\* query or changes the context.
IterateChanges(r) ==
    \/ r.ret
    \/ r.stmts # iter_stmts
    \/ [r.c EXCEPT !.last_ret = "FALSE"] # iter_ctx

\* ENABLED <<\E inline \in BOOLEAN : Iterate(inline)>>_vars, written out.
IterateEnabled ==
    /\ iter_ctx.state = "open"
    /\ iter_ctx.panic = ""
    /\ \E inline \in BOOLEAN :
           /\ inline => DICT_ITERATE_FLAG_ASYNC \in iter_ctx.flags
           /\ IterateChanges(dict_iterate(iter_ctx, set_maps,
                                 op_set.username,
                                 DbRows(set_maps, db_entries), ioloop_time,
                                 iter_stmts, inline))

\* The host goes on calling iterate while the iteration is open: weak
\* fairness WF_vars(\E inline \in BOOLEAN : Iterate(inline)), with its
\* ENABLED written out as IterateEnabled.
SpecIterateFair ==
    /\ SpecIterate
    /\ <>[]IterateEnabled
           => []<><<\E inline \in BOOLEAN : Iterate(inline)>>_vars

\* ------------------------------------------------------------------------
\* Iteration over a map list with a pattern that has no variable
\* ------------------------------------------------------------------------

\* A map with a variable, and a map for the single key shared/n.
IterMaps3 ==
    << Map(DICT_PATH_SHARED \o <<"q", "/", "$">>, "t1",
           <<Field("k", "STRING")>>, <<"v">>, <<"STRING">>, "username",
           NoField),
       Map(DICT_PATH_SHARED \o <<"n">>, "t5", <<>>, <<"v">>, <<"STRING">>,
           "username", NoField) >>

PathN == DICT_PATH_SHARED \o <<"n">>

FixedIterPaths == {PathQ, PathN, DICT_PATH_SHARED, PathZ}

InitIterateFixed ==
    /\ db_flags = {}
    /\ op_set \in ReadSettings
    /\ TxnInit
    /\ set_maps = IterMaps3
    /\ match_path = <<>>
    /\ match_result = <<>>
    /\ LookupIdle
    /\ db_entries \in EntryLists(set_maps)
    /\ iter_ctx = [state |-> "none"]
    /\ iter_stmts = <<>>
    /\ iter_out = <<>>
    /\ StoreIdle
    /\ ScramIdle

NextIterateFixed ==
    \/ \E path \in FixedIterPaths, flags \in IterFlags,
          max_rows \in IterLimits, page \in PageSizes :
          IterateInit(path, flags, max_rows, page)
    \/ \E inline \in BOOLEAN : Iterate(inline)
    \/ IterateCallback
    \/ IterateDeinit

SpecIterateFixed == InitIterateFixed /\ [][NextIterateFixed]_vars

\* ------------------------------------------------------------------------
\* The two ways of reading, one of them in a run: a lookup against a drawn
\* backend answer, or an iteration over the drawn tables
\* ------------------------------------------------------------------------

InitRead == InitLookup \/ InitIterate

NextRead ==
    \/ set_maps = <<>> /\ NextLookup
    \/ set_maps # <<>> /\ NextIterate

SpecRead == InitRead /\ [][NextRead]_vars

\* ------------------------------------------------------------------------
\* Every way a statement reaches the backend, one of them in a run: the
\* mutation verbs and their flushes in a transaction, a lookup, or an
\* iteration
\* ------------------------------------------------------------------------

InitStatements == Init \/ InitLookup \/ InitIterate

\* No mutation verb was called and the transaction is as it was begun.
TxnUntouched ==
    /\ calls = <<>>
    /\ sql_state = "open"
    /\ ctx_state = "open"

NextStatements ==
    \/ /\ set_maps = <<>>
       /\ LookupIdle
       /\ Next
    \/ /\ set_maps = <<>>
       /\ TxnUntouched
       /\ NextLookup
    \/ /\ set_maps # <<>>
       /\ NextIterate

SpecStatements == InitStatements /\ [][NextStatements]_vars

\* ------------------------------------------------------------------------
\* Expire scan
\* ------------------------------------------------------------------------

\* The outcome of executing a statement that writes: ok and the rows left.
Executed(ok, rows) == [ok |-> ok, rows |-> rows]

\* The backend executing "DELETE FROM table [WHERE ...]" on rows, w being
\* the parsed WHERE clause: the rows of the table that satisfy every
\* predicate are removed.
delete_parsed(rows, stmt, w) ==
    IF ~w.ok \/ w.params # <<>> \/ w.rest # <<>>
    THEN Executed(FALSE, rows)
    ELSE Executed(TRUE,
             SelectSeq(rows, LAMBDA r :
                 ~(/\ r.table = stmt.query[2]
                   /\ \A i \in 1..Len(w.preds) :
                          PredicateHolds(r, w.preds[i]))))

sql_exec_delete(rows, stmt) ==
    delete_parsed(rows, stmt,
        ParseWhere(SubSeq(stmt.query, 3, Len(stmt.query)), stmt.params))

\* ioloop_timeval.tv_usec is 0 or MaxUsec.
MaxUsec == 1

\* The statement of sql_dict_expire_map.
expire_map_stmt(map, now, usecs) ==
    Stmt(<<"DELETE FROM", map.table, "WHERE", map.expire_field, "<=", "?">>,
         <<Param("INT", <<>>, now * 1000000 + usecs)>>)

\* What sql_dict_expire_map hands back, with the transaction it opened
\* (its statements and whether it was committed) and the rows left.
ExpiredMap(ret, err, stmt, rows) ==
    [ret |-> ret, error |-> err,
     tran |-> [stmts |-> <<stmt>>, committed |-> ret = 0], rows |-> rows]

\* sql_dict_expire_map from sql_transaction_commit_s on: x is the outcome
\* of executing stmt, fails whether the backend fails the commit for a
\* reason of its own.
expire_map_commit(stmt, rows, x, fails) ==
    IF fails \/ ~x.ok
    THEN ExpiredMap(-1, Error("sql dict: commit failed", <<>>, "backend"),
                    stmt, rows)
    ELSE ExpiredMap(0, NULL, stmt, x.rows)

\* sql_dict_expire_map
sql_dict_expire_map(map, now, usecs, rows, fails) ==
    expire_map_commit(expire_map_stmt(map, now, usecs), rows,
        sql_exec_delete(rows, expire_map_stmt(map, now, usecs)), fails)

\* What sql_dict_expire_scan hands back, with the transactions it opened
\* and the rows left.
Scanned(ret, err, trans, rows) ==
    [ret |-> ret, error |-> err, trans |-> trans, rows |-> rows]

RECURSIVE expire_scan_loop(_, _, _, _, _, _, _, _)

\* Mutation of expire_scan_mapped: a failed commit does not stop the scan.
expire_scan_mapped_goes_on(maps, i, now, usecs, fail_at, found, trans, r) ==
    expire_scan_loop(maps, i + 1, now, usecs, fail_at, TRUE,
                     Append(trans, r.tran), r.rows)

\* The body of the loop of sql_dict_expire_scan for a map with an
\* expire_field, r being what sql_dict_expire_map returned.
expire_scan_mapped(maps, i, now, usecs, fail_at, found, trans, r) ==
    IF r.ret < 0
    THEN Scanned(-1, r.error, Append(trans, r.tran), r.rows)
    ELSE expire_scan_loop(maps, i + 1, now, usecs, fail_at, TRUE,
                          Append(trans, r.tran), r.rows)

\* The loop of sql_dict_expire_scan from the 1-based map index i on: the
\* backend fails the commit of the fail_at-th transaction (none for 0).
expire_scan_loop(maps, i, now, usecs, fail_at, found, trans, rows) ==
    IF i > Len(maps)
    THEN Scanned(IF found THEN 1 ELSE 0, NULL, trans, rows)
    ELSE IF maps[i].expire_field = NoField
    THEN expire_scan_loop(maps, i + 1, now, usecs, fail_at, found, trans,
                          rows)
    ELSE expire_scan_mapped(maps, i, now, usecs, fail_at, found, trans,
             sql_dict_expire_map(maps[i], now, usecs, rows,
                                 Len(trans) + 1 = fail_at))

\* sql_dict_expire_scan
sql_dict_expire_scan(maps, now, usecs, fail_at, rows) ==
    expire_scan_loop(maps, 1, now, usecs, fail_at, FALSE, <<>>, rows)

\* A map list with two expiring maps.
ExpireMaps2 ==
    << Map(DICT_PATH_SHARED \o <<"e", "/", "$">>, "t3",
           <<Field("k", "STRING")>>, <<"v">>, <<"STRING">>, "username",
           "expire"),
       Map(DICT_PATH_SHARED \o <<"q", "/", "$">>, "t5",
           <<Field("k", "STRING")>>, <<"v">>, <<"STRING">>, "username",
           "deadline") >>

\* Map lists with one, no and two expiring maps.
ExpireMapLists == {IterMaps1, IterMaps2, ExpireMaps2}

\* At most MaxScans expire scans are run.
MaxScans == 1

InitExpireScan ==
    /\ db_flags = {}
    /\ op_set \in ReadSettings
    /\ TxnInit
    /\ set_maps \in ExpireMapLists
    /\ match_path = <<>>
    /\ match_result = <<>>
    /\ LookupIdle
    /\ IterIdle
    /\ db_rows \in {DbRows(set_maps, e) : e \in EntryLists(set_maps)}
    /\ expire_scans = <<>>
    /\ ScramIdle

\* The state after an expire scan returned r.
ExpireScan_returned(r) ==
    /\ expire_scans' = Append(expire_scans,
                             [ret |-> r.ret, error |-> r.error,
                              trans |-> r.trans])
    /\ db_rows' = r.rows

\* dict_expire_scan: one run of the reaper over the maps.
ExpireScan(maps, usecs, fail_at) ==
    /\ Len(expire_scans) < MaxScans
    /\ ExpireScan_returned(sql_dict_expire_scan(maps, ioloop_time, usecs,
                                                fail_at, db_rows))

NextExpireScan ==
    \E usecs \in {0, MaxUsec}, fail_at \in 0..Len(set_maps) :
        /\ ExpireScan(set_maps, usecs, fail_at)
        /\ UNCHANGED <<txn_vars, match_vars, lookup_vars, iter_vars, scram_vars>>

SpecExpireScan == InitExpireScan /\ [][NextExpireScan]_vars

\* ------------------------------------------------------------------------
\* The tables under a transaction's statements: set, commit, the clock,
\* expire scan and lookup against the same rows
\* ------------------------------------------------------------------------

\* The decimal text of a non-negative integer.
RECURSIVE DecimalString(_)
DecimalString(n) ==
    IF n < 10 THEN <<Digits[n + 1]>>
    ELSE DecimalString(n \div 10) \o <<Digits[(n % 10) + 1]>>

\* What a column holds after a parameter was stored into it, as the backend
\* hands it back: the string bound, or the decimal text of the integer
\* bound.
ParamText(param) ==
    IF param.value_type = "STRING" THEN SqlStr(param.value_str)
    ELSE IF param.value_int64 < 0
    THEN SqlStr(<<"-">> \o DecimalString(0 - param.value_int64))
    ELSE SqlStr(DecimalString(param.value_int64))

\* The columns of a table, and those of its primary key: the pattern
\* fields of the maps that name the table.
TableColumns(maps, table) ==
    UNION {ColumnNames(maps[i]) :
               i \in {j \in 1..Len(maps) : maps[j].table = table}}

TableKey(maps, table) ==
    UNION {{maps[i].pattern_fields[k].name :
                k \in 1..Len(maps[i].pattern_fields)} :
               i \in {j \in 1..Len(maps) : maps[j].table = table}}

\* How the backend treats a column named twice in one INSERT column list:
\* it rejects the statement, or it stores the first or the last of the
\* values given for the column.  In the SET list of an upsert it rejects
\* the statement or the rightmost assignment wins.
DuplicateColumn == {"reject", "first", "last"}

NamedTwice(names) ==
    \E i, j \in 1..Len(names) : i # j /\ names[i] = names[j]

\* The index of col in names that counts, 0 if it is not named.
NamedAt(names, col, last) ==
    IF \A i \in 1..Len(names) : names[i] # col THEN 0
    ELSE IF last
    THEN CHOOSE i \in 1..Len(names) :
            names[i] = col /\ \A j \in (i + 1)..Len(names) : names[j] # col
    ELSE CHOOSE i \in 1..Len(names) :
            names[i] = col /\ \A j \in 1..(i - 1) : names[j] # col

\* The columns named by "( c1 , c2 , ... )" opening at position 3 of an
\* INSERT and closing at position close.
InsertColumns(query, close) ==
    [i \in 1..((close - 2) \div 2) |-> query[2 * i + 2]]

\* The columns assigned by "c1 = ? , c2 = ? ..." of an upsert tail.
AssignColumns(tokens) ==
    [j \in 1..((Len(tokens) + 1) \div 4) |-> tokens[4 * j - 3]]

\* The text after "VALUES ( ?, ... )" of an INSERT naming n columns.
InsertTail(query, close, n) ==
    SubSeq(query, close + 2 * n + 3, Len(query))

\* The SET list of an upsert tail, empty for none.
UpsertAssigns(tail) ==
    IF tail = <<>> THEN <<>>
    ELSE IF Head(tail) = "ON DUPLICATE KEY UPDATE" THEN Tail(tail)
    ELSE SubSeq(tail, strchr(tail, 1, "DO UPDATE SET") + 1, Len(tail))

\* The row an INSERT naming names with values params adds to table.
InsertedRow(maps, table, names, params, last) ==
    [table |-> table, entry |-> 0,
     cols |-> [c \in TableColumns(maps, table) |->
                  IF NamedAt(names, c, last) = 0 THEN SqlNull
                  ELSE ParamText(params[NamedAt(names, c, last)])]]

\* row after the assignments of an upsert tail.
UpdatedRow(row, names, params) ==
    [row EXCEPT !.cols =
        [c \in DOMAIN row.cols |->
            IF NamedAt(names, c, TRUE) = 0 THEN row.cols[c]
            ELSE ParamText(params[NamedAt(names, c, TRUE)])]]

\* row holds the primary key of new.
SameKey(maps, row, new) ==
    /\ row.table = new.table
    /\ \A k \in TableKey(maps, new.table) : row.cols[k] = new.cols[k]

\* The backend executing an INSERT whose column list is names and whose
\* upsert SET list assigns anames: new is the row to add.
insert_row(maps, rows, params, names, anames, new, dup) ==
    IF \A r \in 1..Len(rows) : ~SameKey(maps, rows[r], new)
    THEN Executed(TRUE, Append(rows, new))
    ELSE IF anames = <<>>
    THEN Executed(FALSE, rows)   \* duplicate key
    ELSE IF NamedTwice(anames) /\ dup = "reject"
    THEN Executed(FALSE, rows)
    ELSE Executed(TRUE,
             [r \in 1..Len(rows) |->
                 IF SameKey(maps, rows[r], new)
                 THEN UpdatedRow(rows[r], anames,
                          SubSeq(params, Len(names) + 1, Len(params)))
                 ELSE rows[r]])

insert_named(maps, rows, stmt, names, anames, dup) ==
    IF \/ \E i \in 1..Len(names) :
              names[i] \notin TableColumns(maps, stmt.query[2])
       \/ \E i \in 1..Len(anames) :
              anames[i] \notin TableColumns(maps, stmt.query[2])
       \/ Len(stmt.params) # Len(names) + Len(anames)
       \/ (NamedTwice(names) /\ dup = "reject")
    THEN Executed(FALSE, rows)
    ELSE insert_row(maps, rows, stmt.params, names, anames,
             InsertedRow(maps, stmt.query[2], names, stmt.params,
                         dup = "last"),
             dup)

insert_parsed(maps, rows, stmt, close, dup) ==
    insert_named(maps, rows, stmt, InsertColumns(stmt.query, close),
        AssignColumns(UpsertAssigns(
            InsertTail(stmt.query, close,
                       Len(InsertColumns(stmt.query, close))))),
        dup)

\* The backend executing "INSERT INTO table ( ... ) VALUES ( ... ) [tail]".
sql_exec_insert(maps, rows, stmt, dup) ==
    insert_parsed(maps, rows, stmt, strchr(stmt.query, 1, ")"), dup)

\* The backend executing the statements of a transaction in order from
\* the i-th on: the first statement that fails fails the transaction.
\* UPDATE statements are not executed here.
RECURSIVE sql_transaction_exec(_, _, _, _, _)

transaction_exec_next(maps, stmts, i, dup, x) ==
    IF ~x.ok THEN x
    ELSE sql_transaction_exec(maps, x.rows, stmts, i + 1, dup)

sql_transaction_exec(maps, rows, stmts, i, dup) ==
    IF i > Len(stmts) THEN Executed(TRUE, rows)
    ELSE IF stmts[i].query[1] = "INSERT INTO"
    THEN transaction_exec_next(maps, stmts, i, dup,
             sql_exec_insert(maps, rows, stmts[i], dup))
    ELSE IF stmts[i].query[1] = "DELETE FROM"
    THEN transaction_exec_next(maps, stmts, i, dup,
             sql_exec_delete(rows, stmts[i]))
    ELSE Executed(FALSE, rows)

\* The clock runs up to MaxTime.
MaxTime == 102

\* The set(key, value) calls drawn: two values for one key, a value with a
\* leading zero for the INT column, the second column of the same row, and
\* another row.
StoreSetInputs ==
    { <<KeyBytes1, <<"5">>>>, <<KeyBytes1, <<"6">>>>,
      <<KeyBytes1, <<"0", "5">>>>, <<KeyCount1, <<"x">>>>,
      <<KeyBytes2, <<"5">>>> }

StoreKeys == {KeyBytes1, KeyCount1, KeyBytes2}

\* The table before the transaction: empty, or holding the row of uid 1.
StoreInitRows ==
    { <<>>,
      << [table |-> "quota", entry |-> 0,
          cols |-> [c \in TableColumns(Maps, "quota") |->
                       IF c \in {"uid", "bytes"} THEN SqlStr(<<"1">>)
                       ELSE SqlNull]] >> }

InitStore ==
    /\ db_flags \in DbFlagChoices
    /\ op_set \in OpSettings
    /\ TxnInit
    /\ MatchIdle
    /\ LookupIdle
    /\ IterIdle
    /\ db_rows \in StoreInitRows
    /\ expire_scans = <<>>
    /\ ScramIdle

\* sql_transaction_commit_s in the backend: the transaction commits only
\* if every statement executed (x), and the tables change only if it
\* commits.
transaction_executed(x) ==
    /\ sql_state' = "committed" => x.ok
    /\ db_rows' = IF sql_state' = "committed" THEN x.rows ELSE db_rows

\* dict_transaction_commit, synchronous, against the tables.
StoreCommit(dup) ==
    /\ ctx_state = "open"
    /\ sql_dict_transaction_commit(flush_pending(Ctx), FALSE)
    /\ transaction_executed(
           sql_transaction_exec(Maps, db_rows, flush_pending(Ctx).stmts, 1,
                                dup))
    /\ UNCHANGED <<db_flags, op_set, ioloop_time, changed, calls>>
    /\ UNCHANGED <<match_vars, lookup_vars, iter_vars, expire_scans, scram_vars>>

\* A second passes, once the transaction is over.
StoreTick ==
    /\ ctx_state = "freed"
    /\ lookup_state = "idle"
    /\ ioloop_time < MaxTime
    /\ ioloop_time' = ioloop_time + 1
    /\ UNCHANGED <<db_flags, op_set, changed, error, error_log,
                   async_callback, prev_inc, prev_set, inc_row, sql_stmts,
                   sql_state, ctx_state, backend_commits, commit_results,
                   calls, sql_commit_result>>
    /\ UNCHANGED other_vars

\* dict_expire_scan, once the transaction is over.
StoreExpireScan(usecs, fail_at) ==
    /\ ctx_state = "freed"
    /\ lookup_state = "idle"
    /\ ExpireScan(Maps, usecs, fail_at)
    /\ UNCHANGED <<txn_vars, match_vars, lookup_vars, iter_vars, scram_vars>>

\* The result of the lookup's SELECT over the tables.
StoreAnswer(x) ==
    [rows |-> x.rows, failed |-> x.failed, fetched |-> Len(x.rows)]

\* sql_dict_lookup from "result = sql_statement_query_s" on, result being
\* the backend's answer.
store_lookup_answered(map, result) ==
    lookup_result(map, result,
                  sql_dict_result_next_row(map, result, ioloop_time, 1))

\* sql_dict_lookup against the tables; q is what sql_lookup_get_query
\* returned.
store_lookup(key, q) ==
    /\ lookup_key' = key
    /\ lookup_state' = "done"
    /\ lookup_map' = q.map
    /\ IF q.ret < 0
       THEN /\ lookup_results' =
                  Append(lookup_results, LookupResult(-1, <<>>, q.error, 0))
            /\ UNCHANGED lookup_stmts
       ELSE /\ lookup_stmts' = Append(lookup_stmts, q.stmt)
            /\ lookup_results' =
                  Append(lookup_results,
                      store_lookup_answered(Maps[q.map],
                          StoreAnswer(sql_statement_query(db_rows, q.stmt))))
    /\ UNCHANGED <<txn_vars, match_vars, iter_vars, store_vars, scram_vars,
                   lookup_callback, sql_result>>

\* dict_lookup, once the transaction is over.
StoreLookup(key) ==
    /\ ctx_state = "freed"
    /\ lookup_state = "idle"
    /\ store_lookup(key, sql_lookup_get_query(op_set, key))

NextStore ==
    \/ \E in \in StoreSetInputs : Set(in[1], in[2])
    \/ \E dup \in DuplicateColumn : StoreCommit(dup)
    \/ StoreTick
    \/ \E usecs \in {0, MaxUsec}, fail_at \in 0..1 :
          StoreExpireScan(usecs, fail_at)
    \/ \E key \in StoreKeys : StoreLookup(key)

SpecStore == InitStore /\ [][NextStore]_vars

\* ------------------------------------------------------------------------
\* Reading the call log and the emitted statements
\* ------------------------------------------------------------------------

\* The keys the calls are drawn from, and for each the map the matcher finds
\* with the pattern values it extracts.
LoggedKeys ==
    { in[1] : in \in SetInputs } \cup { in[1] : in \in IncInputs }
        \cup UnsetInputs

FoundMap == [key \in LoggedKeys |-> sql_dict_find_map(Maps, key)]

\* Two keys are mergeable: same table, same path class, same username column
\* when private, equal pattern values.
Mergeable(key1, key2) ==
    LET m1 == FoundMap[key1]
        m2 == FoundMap[key2]
    IN  /\ m1.map # 0
        /\ m2.map # 0
        /\ Maps[m1.map].table = Maps[m2.map].table
        /\ IsPrivate(key1) = IsPrivate(key2)
        /\ (IsPrivate(key1)
            => Maps[m1.map].username_field = Maps[m2.map].username_field)
        /\ m1.values = m2.values

\* The maximal runs of the call log: call i joins the run of call i - 1 when
\* both are sets (or both increments) and their keys are mergeable; an unset
\* is a run of its own.  Each run is the sequence of its call indices.
RECURSIVE GroupsFrom(_, _, _)
GroupsFrom(log, i, acc) ==
    IF i > Len(log) THEN acc
    ELSE IF /\ i > 1
            /\ log[i].op \in {"set", "inc"}
            /\ log[i - 1].op = log[i].op
            /\ Mergeable(log[i - 1].key, log[i].key)
    THEN GroupsFrom(log, i + 1, [acc EXCEPT ![Len(acc)] = Append(@, i)])
    ELSE GroupsFrom(log, i + 1, Append(acc, <<i>>))

Groups(log) == GroupsFrom(log, 1, <<>>)

\* The text and parameters of a statement.
QueryParams(query, params) == [query |-> query, params |-> params]

\* The staged entries the calls log[grp[1]], log[grp[2]], ... make.
PrevsOf(log, grp) ==
    [j \in 1..Len(grp) |->
        Prev(FoundMap[log[grp[j]].key].map,
             log[grp[j]].key, log[grp[j]].str, log[grp[j]].diff)]

\* The statement the query builders make of a batch of staged sets.
InsertOf(prevs) ==
    LET q == sql_dict_set_query(Maps, db_flags, op_set, ioloop_time,
                                BuildQuery(prevs))
    IN  QueryParams(q.stmt.query, q.stmt.params)

\* The statement the query builders make of a batch of staged increments.
UpdateOf(prevs) ==
    LET q == sql_dict_update_query(Maps, op_set, BuildQuery(prevs),
                 [i \in 1..Len(prevs) |-> Param("INT", <<>>, prevs[i].diff)])
    IN  QueryParams(q.query, q.params)

\* The names of the value columns of the configured maps.
ValueColumns == { t_strcut(Maps[m].value_field) : m \in DOMAIN Maps }

\* The first position of token tok in query, 0 if absent.
TokenPos(query, tok) ==
    IF \E i \in 1..Len(query) : query[i] = tok
    THEN CHOOSE i \in 1..Len(query) :
            query[i] = tok /\ \A j \in 1..(i - 1) : query[j] # tok
    ELSE 0

\* How many values of calls a statement carries: the value columns of an
\* INSERT's column list, the assignments of an UPDATE, none for a DELETE.
CarriedValues(stmt) ==
    IF stmt.query[1] = "INSERT INTO"
    THEN Cardinality({ i \in 1..TokenPos(stmt.query, "VALUES") :
                          stmt.query[i] \in ValueColumns })
    ELSE IF stmt.query[1] = "UPDATE"
    THEN Cardinality({ i \in 1..(Len(stmt.query) - 1) :
                          /\ stmt.query[i] \in ValueColumns
                          /\ stmt.query[i + 1] = "=" })
    ELSE 0

RECURSIVE SumCarried(_)
SumCarried(stmts) ==
    IF stmts = <<>> THEN 0
    ELSE CarriedValues(stmts[1]) + SumCarried(Tail(stmts))

\* The value column a call writes.
ValueColumn(call) == t_strcut(Maps[FoundMap[call.key].map].value_field)

\* The value of each set call drawn, as the codec binds it.
SetValueParam ==
    [in \in SetInputs |->
        IF FoundMap[in[1]].map = 0 THEN NoParam
        ELSE sql_dict_value_get(Maps[FoundMap[in[1]].map],
                 Maps[FoundMap[in[1]].map].value_types[1], "value", in[2],
                 <<>>).param]

\* The value parameter a call binds: the encoded value of a set, the diff of
\* an atomic_inc.
ValueParam(call) ==
    IF call.op = "set" THEN SetValueParam[<<call.key, call.str>>]
    ELSE Param("INT", <<>>, call.diff)

\* The pattern values of each key drawn, as the codec binds them.
KeyPatternParams ==
    [key \in LoggedKeys |->
        IF FoundMap[key].map = 0 THEN <<>>
        ELSE [i \in 1..Len(FoundMap[key].values) |->
                 sql_dict_field_get_value(Maps[FoundMap[key].map],
                     Maps[FoundMap[key].map].pattern_fields[i],
                     FoundMap[key].values[i], <<>>).param]]

\* The parameters an INSERT binds between the values and the pattern values:
\* the username of a private key, the expire timestamp of a map that
\* expires.
InsertExtraParams(key) ==
    (IF IsPrivate(key) THEN <<Param("STRING", op_set.username, 0)>>
     ELSE <<>>)
    \o (IF Maps[FoundMap[key].map].expire_field # NoField
           /\ op_set.expire_secs > 0
        THEN <<Param("UINT", <<>>, ioloop_time + op_set.expire_secs)>>
        ELSE <<>>)

\* stmt is the statement of the run grp of the call log: an INSERT for sets,
\* an UPDATE for increments, a DELETE for an unset, on the table of the run,
\* carrying the value column and the value of each call of the run, in call
\* order, and no other, and addressing the row of the run's pattern values.
Carries(stmt, log, grp) ==
    LET first == log[grp[1]]
        n == Len(grp)
        pattern == KeyPatternParams[first.key]
        extra == InsertExtraParams(first.key)
    IN  /\ stmt.query[2] = Maps[FoundMap[first.key].map].table
        /\ CarriedValues(stmt) = (IF first.op = "unset" THEN 0 ELSE n)
        /\ IF first.op = "set"
           THEN /\ stmt.query[1] = "INSERT INTO"
                /\ \A j \in 1..n :
                      /\ stmt.query[2 + 2 * j] = ValueColumn(log[grp[j]])
                      /\ stmt.params[j] = ValueParam(log[grp[j]])
                /\ SubSeq(stmt.params, n + 1,
                          n + Len(extra) + Len(pattern)) = extra \o pattern
           ELSE IF first.op = "inc"
           THEN /\ stmt.query[1] = "UPDATE"
                /\ \A j \in 1..n :
                      /\ stmt.query[6 * j - 2] = ValueColumn(log[grp[j]])
                      /\ stmt.params[j] = ValueParam(log[grp[j]])
                /\ SubSeq(stmt.params, n + 1, n + Len(pattern)) = pattern
           ELSE /\ stmt.query[1] = "DELETE FROM"
                /\ SubSeq(stmt.params, 1, Len(pattern)) = pattern

\* The set and atomic_inc calls of the log.
SetIncCalls(log) == { i \in 1..Len(log) : log[i].op \in {"set", "inc"} }

\* A step of sql_dict_transaction_commit: it reports to the callback or
\* leaves the commit to the backend.
CommitStep ==
    /\ ctx_state = "open"
    /\ \/ commit_results' # commit_results
       \/ ctx_state' = "commit_wait"

\* ------------------------------------------------------------------------
\* Properties
\* ------------------------------------------------------------------------

\* C1: in a transaction without error, once commit has handed the
\* transaction to the backend, the statements in the SQL transaction are, in
\* order, one statement per maximal run of mergeable set (or atomic_inc)
\* calls and one DELETE per unset: the statement of a run precedes the
\* statements of all later calls.
C1_StatementsInCallOrder ==
    (backend_commits > 0) =>
        LET G == Groups(calls)
        IN  /\ Len(sql_stmts) = Len(G)
            /\ \A g \in 1..Len(G) : Carries(sql_stmts[g], calls, G[g])

\* C1 happens: set(A); atomic_inc(B); unset(C); commit emitted an INSERT, an
\* UPDATE and a DELETE.
C1_Witness ==
    /\ sql_state = "committed"
    /\ Len(calls) = 3
    /\ calls[1].op = "set"
    /\ calls[2].op = "inc"
    /\ calls[3].op = "unset"
    /\ Len(sql_stmts) = 3
    /\ sql_stmts[1].query[1] = "INSERT INTO"
    /\ sql_stmts[2].query[1] = "UPDATE"
    /\ sql_stmts[3].query[1] = "DELETE FROM"

\* C2: between calls, prev_set and prev_inc are never both non-empty, also
\* after calls that latch an error.
C2_OneBufferAtATime ==
    ~(array_is_created(prev_set) /\ array_is_created(prev_inc))

\* C2 happens: an atomic_inc was staged, the set that followed flushed it,
\* the flush latched an error, and the set was staged all the same.
C2_Witness ==
    /\ ctx_state = "open"
    /\ Len(calls) = 2
    /\ calls[1].op = "inc"
    /\ calls[2].op = "set"
    /\ error # NULL
    /\ array_is_created(prev_set)
    /\ ~array_is_created(prev_inc)

\* C3: between calls, the entries staged in prev_set are pairwise mergeable,
\* and so are the entries staged in prev_inc: same table, same path class,
\* same username column when private, equal pattern values.
C3_StagedPairwiseMergeable ==
    /\ \A i, j \in 1..Len(prev_set) :
          Mergeable(prev_set[i].key, prev_set[j].key)
    /\ \A i, j \in 1..Len(prev_inc) :
          Mergeable(prev_inc[i].key, prev_inc[j].key)

\* C3 happens: three sets are staged, the later ones of another map than the
\* first.
C3_Witness ==
    /\ Len(prev_set) = 3
    /\ prev_set[2].map # prev_set[1].map
    /\ prev_set[3].map # prev_set[2].map

\* C4: in a transaction of set calls without error, every maximal run of
\* mergeable sets that was followed by a set of other pattern values (or by
\* commit) is exactly one INSERT, the INSERTs in the order of the runs, each
\* carrying one value column and one value parameter per call of its run, in
\* call order; the last run is staged, in call order, while the transaction
\* is open.
C4_OneInsertPerMergeableRun ==
    (/\ error = NULL
     /\ calls # <<>>
     /\ \A i \in 1..Len(calls) : calls[i].op = "set"
     /\ (ctx_state = "open" \/ backend_commits > 0)) =>
        LET G == Groups(calls)
            emitted == IF ctx_state = "open" THEN Len(G) - 1 ELSE Len(G)
        IN  /\ Len(sql_stmts) = emitted
            /\ \A g \in 1..emitted : Carries(sql_stmts[g], calls, G[g])
            /\ (ctx_state = "open" =>
                   /\ Len(prev_set) = Len(G[Len(G)])
                   /\ \A j \in 1..Len(prev_set) :
                         /\ prev_set[j].key = calls[G[Len(G)][j]].key
                         /\ prev_set[j].str = calls[G[Len(G)][j]].str)

\* C4 happens: two mergeable sets and then a set of the same pattern under
\* another uid; the first two went out as one INSERT, the third is staged.
C4_Witness ==
    /\ ctx_state = "open"
    /\ error = NULL
    /\ Len(calls) = 3
    /\ calls[1] = Call("set", KeyBytes1, <<"5">>, 0)
    /\ calls[2] = Call("set", KeyCount1, <<"x">>, 0)
    /\ calls[3] = Call("set", KeyBytes2, <<"5">>, 0)
    /\ Len(sql_stmts) = 1
    /\ Len(prev_set) = 1

\* The statements a flush of the staged batches adds, increments first.
StagedStmts ==
    (IF array_is_created(prev_inc) THEN <<UpdateOf(prev_inc)>> ELSE <<>>)
    \o (IF array_is_created(prev_set) THEN <<InsertOf(prev_set)>> ELSE <<>>)

\* The statements of the SQL transaction, text and parameters only.
EmittedStmts(stmts) ==
    [i \in 1..Len(stmts) |-> QueryParams(stmts[i].query, stmts[i].params)]

\* What commit does with the staged batches when its flush succeeds: they
\* go out, once, behind the statements already there, the buffers are empty,
\* and when the backend commit is invoked the statements carry as many
\* values as there were set and atomic_inc calls.
CommitEmitsStaged ==
    /\ prev_set' = <<>>
    /\ prev_inc' = <<>>
    /\ EmittedStmts(sql_stmts') = EmittedStmts(sql_stmts) \o StagedStmts
    /\ (backend_commits' > backend_commits
        => SumCarried(sql_stmts') = Cardinality(SetIncCalls(calls)))

\* C5 as stated: a commit called with no latched error emits every staged
\* set and atomic_inc before the backend commit, none dropped or emitted
\* twice, and leaves both buffers empty.
C5_AsStated ==
    [][(CommitStep /\ error = NULL) => CommitEmitsStaged]_vars

\* C5, amended: a commit called with no latched error whose own flush
\* latches none emits every staged set and atomic_inc before the backend
\* commit, none dropped or emitted twice, and leaves both buffers empty; when
\* its flush fails (a staged value or pattern value does not encode), the
\* staged batch is freed without being emitted, the error is latched and the
\* backend commit is not invoked.
C5_CommitFlushesStaged ==
    [][(CommitStep /\ error = NULL) =>
           IF error' = NULL
           THEN CommitEmitsStaged
           ELSE /\ prev_set' = <<>>
                /\ prev_inc' = <<>>
                /\ sql_stmts' = sql_stmts
                /\ backend_commits' = backend_commits
                /\ sql_state' = "rolled_back"]_vars

\* C5 happens: two mergeable sets were still staged at commit, which emitted
\* them as the only statement and committed.
C5_Witness ==
    /\ backend_commits = 1
    /\ error = NULL
    /\ Len(calls) = 2
    /\ calls[1].op = "set"
    /\ calls[2].op = "set"
    /\ Len(sql_stmts) = 1
    /\ CarriedValues(sql_stmts[1]) = 2
    /\ prev_set = <<>>

\* C6: once an error is latched, a set, atomic_inc or unset call adds no
\* statement and leaves prev_set, prev_inc and the latched error unchanged.
C6_LatchedErrorMakesCallsNoOps ==
    [][(error # NULL /\ calls' # calls) =>
           /\ sql_stmts' = sql_stmts
           /\ prev_set' = prev_set
           /\ prev_inc' = prev_inc
           /\ error' = error]_vars

\* C6 happens: a call was made on a transaction whose error an unmapped key
\* had latched while a set was staged.
C6_Witness ==
    /\ Len(calls) = 3
    /\ calls[1].op = "set"
    /\ calls[2].key = KeyUnmapped
    /\ error # NULL
    /\ array_is_created(prev_set)

\* C7: the first error of a transaction is the one kept: ctx->error is
\* assigned at most once, also when the flush at the start of a call fails
\* and the same call then meets an unmapped key, and a commit that fails on
\* the latched error reports that first message.
C7_FirstErrorKept ==
    /\ Len(error_log) <= 1
    /\ (error # NULL => error = error_log[1])
    /\ \A i \in 1..Len(commit_results) :
          (commit_results[i].ret = "FAILED" /\ backend_commits = 0)
              => commit_results[i].error = error_log[1]

\* C8: a commit on a transaction with a latched error, the error of commit's
\* own flush included, rolls the SQL transaction back, does not invoke the
\* backend commit, sync or async, and reports FAILED with the latched
\* message.
C8_CommitWithErrorRollsBack ==
    [][(CommitStep /\ error' # NULL) =>
           /\ sql_state' = "rolled_back"
           /\ backend_commits' = backend_commits
           /\ ctx_state' = "freed"
           /\ commit_results' =
                  Append(commit_results, Result("FAILED", error'))]_vars

\* C8 happens: the only call staged a set whose value does not encode; the
\* flush of commit latched the error and commit reported it.
C8_Witness ==
    /\ calls = <<Call("set", KeyBytes1, <<"x">>, 0)>>
    /\ error # NULL
    /\ sql_state = "rolled_back"
    /\ backend_commits = 0
    /\ commit_results = <<Result("FAILED", error)>>

\* C9: a commit on a transaction that is not changed and has no latched
\* error rolls the SQL transaction back, does not invoke the backend commit
\* and reports OK.
C9_UnchangedCommitRollsBack ==
    [][(CommitStep /\ ~changed /\ error' = NULL) =>
           /\ sql_state' = "rolled_back"
           /\ backend_commits' = backend_commits
           /\ commit_results' =
                  Append(commit_results, Result("OK", NULL))]_vars

\* C9 happens: commit was called on a transaction no verb was called on.
C9_Witness ==
    /\ ~changed
    /\ calls = <<>>
    /\ error = NULL
    /\ sql_state = "rolled_back"
    /\ backend_commits = 0
    /\ commit_results = <<Result("OK", NULL)>>

\* The UPDATE statements of the SQL transaction.
UpdateStmts == { i \in 1..Len(sql_stmts) : sql_stmts[i].query[1] = "UPDATE" }

\* C10: every UPDATE an atomic_inc flush emitted registered one row-count
\* slot of its own, the INSERTs and DELETEs none; a synchronous commit the
\* backend accepted reports NOTFOUND if and only if one of the UPDATEs
\* affected zero rows, and OK otherwise; a synchronous commit the backend
\* failed reports FAILED.
C10_NotFoundIffZeroRows ==
    /\ \A i \in 1..Len(sql_stmts) :
          IF i \in UpdateStmts
          THEN sql_stmts[i].row_slot \in 1..Len(inc_row)
          ELSE sql_stmts[i].row_slot = 0
    /\ \A i, j \in UpdateStmts :
          sql_stmts[i].row_slot = sql_stmts[j].row_slot => i = j
    /\ Cardinality(UpdateStmts) = Len(inc_row)
    /\ (sql_state = "committed" /\ async_callback = "NULL") =>
          commit_results =
              <<Result(IF \E i \in UpdateStmts :
                             inc_row[sql_stmts[i].row_slot] = 0
                       THEN "NOTFOUND" ELSE "OK", NULL)>>
    /\ (sql_state = "commit_failed" /\ async_callback = "NULL") =>
          /\ Len(commit_results) = 1
          /\ commit_results[1].ret = "FAILED"

\* C10 happens: a synchronous commit of two UPDATEs, a DELETE between them,
\* the older UPDATE affecting no row and the newer one a row, reported
\* NOTFOUND.
C10_Witness ==
    /\ sql_state = "committed"
    /\ async_callback = "NULL"
    /\ Len(sql_stmts) = 3
    /\ UpdateStmts = {1, 3}
    /\ inc_row = <<0, 1>>
    /\ commit_results = <<Result("NOTFOUND", NULL)>>

\* C11: an asynchronous commit the backend failed reports WRITE_UNCERTAIN
\* exactly when the failure's error type is WRITE_UNCERTAIN and FAILED for
\* every other failure; one the backend accepted reports NOTFOUND if one of
\* the UPDATEs affected zero rows and OK otherwise, as the synchronous path.
C11_AsyncCommitResult ==
    (async_callback = "set" /\ ctx_state = "freed") =>
        /\ Len(commit_results) = 1
        /\ commit_results[1].ret =
              IF sql_commit_result.ok
              THEN IF \E i \in UpdateStmts :
                         inc_row[sql_stmts[i].row_slot] = 0
                   THEN "NOTFOUND" ELSE "OK"
              ELSE IF sql_commit_result.error_type = "WRITE_UNCERTAIN"
              THEN "WRITE_UNCERTAIN" ELSE "FAILED"

\* C11 happens: the backend failed an asynchronous commit with error type
\* WRITE_UNCERTAIN and the callback was told so.
C11_Witness ==
    /\ async_callback = "set"
    /\ ctx_state = "freed"
    /\ sql_commit_result = [ok |-> FALSE, error_type |-> "WRITE_UNCERTAIN"]
    /\ commit_results[1].ret = "WRITE_UNCERTAIN"

\* A step of sql_dict_transaction_rollback: the open transaction is freed
\* and nothing is reported to a commit callback.
RollbackStep ==
    /\ ctx_state = "open"
    /\ ctx_state' = "freed"
    /\ commit_results' = commit_results

\* C12: rollback emits none of the staged set / atomic_inc operations to the
\* SQL transaction, frees the staging buffers, rolls the SQL transaction
\* back and does not invoke the backend commit.
C12_RollbackEmitsNothing ==
    [][RollbackStep =>
           /\ sql_stmts' = sql_stmts
           /\ prev_set' = <<>>
           /\ prev_inc' = <<>>
           /\ sql_state' = "rolled_back"
           /\ backend_commits' = 0]_vars

\* C12 happens: a transaction was rolled back while two mergeable sets were
\* staged behind one emitted INSERT.
C12_Witness ==
    /\ ctx_state = "freed"
    /\ sql_state = "rolled_back"
    /\ commit_results = <<>>
    /\ Len(calls) = 3
    /\ calls[1] = Call("set", KeyBytes2, <<"5">>, 0)
    /\ calls[2] = Call("set", KeyBytes1, <<"5">>, 0)
    /\ calls[3] = Call("set", KeyCount1, <<"x">>, 0)
    /\ Len(sql_stmts) = 1
    /\ prev_set = <<>>

\* ------------------------------------------------------------------------
\* The matcher
\* ------------------------------------------------------------------------

\* The maps of set_maps whose pattern matches match_path exactly.
ExactHits ==
    {i \in 1..Len(set_maps) :
        dict_sql_map_match(set_maps[i], match_path, FALSE, FALSE).ret}

\* C13: sql_dict_find_map returns the lowest-index map whose pattern
\* matches the path exactly, whatever later maps match as well, and returns
\* no map if and only if no map of the list matches.
C13_FindMapFirstFit ==
    (match_result # <<>> /\ Len(set_maps) > 0) =>
        /\ (match_result[1].map = 0) <=> (ExactHits = {})
        /\ ExactHits # {} =>
              /\ match_result[1].map \in ExactHits
              /\ \A j \in ExactHits : match_result[1].map <= j

\* C13 witness: the path a/a is matched by the first map a/$ and by the
\* second map a/a, whose literal prefix is longer; the first is returned.
C13_Witness ==
    /\ match_result # <<>>
    /\ Len(set_maps) = 2
    /\ set_maps[1].pattern = <<"a", "/", "$">>
    /\ set_maps[2].pattern = <<"a", "/", "a">>
    /\ match_path = <<"a", "/", "a">>
    /\ ExactHits = {1, 2}
    /\ match_result[1].map = 1

\* The pattern with its variables replaced, in order, by values; a variable
\* without a value stays as it is, and values left over are appended after
\* a variable sign, so that neither case equals any path.
RECURSIVE Substitute(_, _)
Substitute(pattern, values) ==
    IF pattern = <<>>
    THEN IF values = <<>> THEN <<>> ELSE <<"$">>
    ELSE IF Head(pattern) = "$" /\ values # <<>>
    THEN Head(values) \o Substitute(Tail(pattern), Tail(values))
    ELSE <<Head(pattern)>> \o Substitute(Tail(pattern), values)

\* C14: whenever dict_sql_map_match accepts a path as an exact match
\* (partial_ok false), replacing the variables of the pattern, in order, by
\* the extracted values gives back the path.
C14_ReconstructionEqualsPath ==
    (/\ match_result # <<>>
     /\ Len(set_maps) = 1
     /\ ~match_result[1].partial_ok
     /\ match_result[1].match.ret) =>
        Substitute(set_maps[1].pattern, match_result[1].match.values)
            = match_path

\* ------------------------------------------------------------------------
\* Lookup
\* ------------------------------------------------------------------------

\* C15: a lookup, synchronous or asynchronous, of a key no map matches
\* fails within the call with the unmapped-key error, and no statement is
\* sent to the backend.
C15_UnmappedLookupFailsAtOnce ==
    (lookup_state # "idle" /\ sql_dict_find_map(Maps, lookup_key).map = 0) =>
        /\ lookup_state = "done"
        /\ lookup_stmts = <<>>
        /\ Len(lookup_results) = 1
        /\ lookup_results[1].ret = -1
        /\ lookup_results[1].error =
               Error("sql dict lookup: Invalid/unmapped key", lookup_key, "")

\* C15 witness: an asynchronous lookup of the unmapped key has returned.
C15_Witness ==
    /\ lookup_key = KeyUnmapped
    /\ lookup_callback = "set"
    /\ lookup_state = "done"
    /\ lookup_stmts = <<>>
    /\ lookup_results[1].ret = -1

\* The row's expiry value is a time not after now.
Expired(row, now) ==
    /\ ~row.expire.null
    /\ \A i \in 1..Len(row.expire.str) : IsDigit(row.expire.str[i])
    /\ row.expire.str # <<>>
    /\ DecimalValue(row.expire.str) <= now

\* The rows of the backend's answer that are not expired.
LiveRows == {i \in 1..Len(sql_result.rows) : ~Expired(sql_result.rows[i], ioloop_time)}

\* The entries of the tables that are not expired, are visible to the
\* iterating user and lie below the iterated path.
LiveEntriesBelowPath ==
    {db_entries[i] : i \in
        {j \in 1..Len(db_entries) :
            /\ ~Expired(AllEntries[db_entries[j]], ioloop_time)
            /\ Len(AllEntries[db_entries[j]].key) > Len(iter_ctx.path)
            /\ SubSeq(AllEntries[db_entries[j]].key, 1, Len(iter_ctx.path))
                   = iter_ctx.path
            /\ IsPrivate(iter_ctx.path) =>
                   AllEntries[db_entries[j]].username = op_set.username}}

\* The iteration has ended without an error and without a row limit.
IterationFinished ==
    /\ iter_ctx.state = "open"
    /\ iter_ctx.last_ret = "FALSE"
    /\ ~iter_ctx.has_more
    /\ iter_ctx.error = NULL
    /\ iter_ctx.panic = ""
    /\ iter_ctx.max_rows = 0

\* C16: for a map with an expire_field a row whose expiry is <= now is
\* never returned by lookup nor yielded by iterate.  A finished lookup
\* returns the first row that is not expired, whatever expired rows
\* precede it, and reports not-found (or the failure of the result) when
\* every row is expired; a finished iteration over the rows of the map
\* with the expire column has yielded every row that is not expired.
C16_ExpiredRowsSkipped ==
    /\ (/\ lookup_state = "done"
        /\ lookup_stmts # <<>>
        /\ Maps[lookup_map].expire_field # NoField) =>
           LET r == lookup_results[1]
           IN  IF LiveRows = {}
               THEN r.ret = (IF sql_result.failed THEN -1 ELSE 0)
               ELSE /\ r.ret = 1
                    /\ r.row \in LiveRows
                    /\ \A j \in LiveRows : r.row <= j
                    /\ r.values[1].str = sql_result.rows[r.row].values[1].str
    /\ iter_ctx.state # "none" =>
           \A i \in 1..Len(iter_out) :
               ~Expired(AllEntries[iter_out[i].entry], ioloop_time)
    /\ (IterationFinished /\ iter_ctx.path = PathE) =>
           {iter_out[i].entry : i \in 1..Len(iter_out)}
               = LiveEntriesBelowPath

\* C16 witness: the first row expires exactly now, the second a second
\* later and holds 7; the lookup returned the second.
C16_Witness ==
    /\ lookup_state = "done"
    /\ lookup_key = KeyCount1
    /\ Len(sql_result.rows) = 2
    /\ sql_result.rows[1].expire = SqlStr(<<"1", "0", "0">>)
    /\ sql_result.rows[2].expire = SqlStr(<<"1", "0", "1">>)
    /\ ioloop_time = 100
    /\ lookup_results[1].ret = 1
    /\ lookup_results[1].row = 2
    /\ lookup_results[1].values = <<SqlStr(<<"7">>)>>

\* C17: an asynchronous lookup whose surviving row holds SQL NULL in the
\* first value column reports not-found (ret 0) to the callback; a
\* synchronous lookup of the same row reports found with the empty string.
C17_AsyncNullIsNotFound ==
    (/\ lookup_state = "done"
     /\ lookup_results[1].row # 0
     /\ sql_result.rows[lookup_results[1].row].values[1].null) =>
        IF lookup_callback = "set"
        THEN lookup_results[1].ret = 0
        ELSE /\ lookup_results[1].ret = 1
             /\ lookup_results[1].values[1] = SqlStr(<<>>)

\* C18: a lookup_async call invokes the caller's callback exactly once:
\* never more than once, once when the call or the query has finished,
\* and every query sent is answered.
C18_AsyncCallbackExactlyOnce ==
    /\ [](lookup_callback = "set" =>
            /\ Len(lookup_results) <= 1
            /\ lookup_state = "done" => Len(lookup_results) = 1)
    /\ ((lookup_callback = "set" /\ lookup_state = "pending")
            ~> (lookup_state = "done" /\ Len(lookup_results) = 1))

\* C18 witness: the query was sent, the backend failed, and the callback
\* was called once with the failure.
C18_Witness ==
    /\ lookup_callback = "set"
    /\ lookup_state = "done"
    /\ lookup_stmts # <<>>
    /\ sql_result.failed
    /\ Len(lookup_results) = 1
    /\ lookup_results[1].ret = -1

\* ------------------------------------------------------------------------
\* Iteration
\* ------------------------------------------------------------------------

\* C19: an iteration with neither RECURSE nor EXACT_KEY yields only direct
\* children of the iterated path: no yielded key has a '/' after the path.
C19_OnlyDirectChildren ==
    (/\ iter_ctx.state # "none"
     /\ DICT_ITERATE_FLAG_RECURSE \notin iter_ctx.flags
     /\ DICT_ITERATE_FLAG_EXACT_KEY \notin iter_ctx.flags) =>
        \A i \in 1..Len(iter_out) :
            \A j \in (Len(iter_ctx.path) + 1)..Len(iter_out[i].key) :
                iter_out[i].key[j] # "/"

\* C20: a finished recursive iteration has yielded exactly the keys stored
\* below the path, each of them once.
C20_RecursiveYieldsEachStoredKeyOnce ==
    (IterationFinished /\ DICT_ITERATE_FLAG_RECURSE \in iter_ctx.flags) =>
        /\ Len(iter_out) = Cardinality(LiveEntriesBelowPath)
        /\ \A i, j \in 1..Len(iter_out) :
               iter_out[i].key = iter_out[j].key => i = j
        /\ {iter_out[i].key : i \in 1..Len(iter_out)}
               = {AllEntries[e].key : e \in LiveEntriesBelowPath}

\* No map of the list is chosen for the iterated path by a fresh
\* iteration.
NoMapMatches ==
    /\ iter_ctx.state # "none"
    /\ sql_dict_iterate_find_next_map(
           IterCtx(iter_ctx.path, iter_ctx.flags, 0, 0), set_maps).map = 0

\* The error of an iteration over a path that no map matches.
UnmappedPathError ==
    Error("sql dict iterate failed for", iter_ctx.path,
          "Invalid/unmapped path")

\* C21: if no configured map matches the iteration path, the first iterate
\* call returns FALSE with has_more false, no SQL query is issued, and
\* iterate_deinit reports failure with an invalid/unmapped path error.
C21_UnmappedIterationFails ==
    (NoMapMatches /\ iter_ctx.last_ret # "NONE") =>
        /\ iter_ctx.last_ret = "FALSE"
        /\ ~iter_ctx.has_more
        /\ iter_stmts = <<>>
        /\ iter_out = <<>>
        /\ iter_ctx.pending = <<>>
        /\ iter_ctx.error = UnmappedPathError
        /\ iter_ctx.state = "deinit" =>
               /\ iter_ctx.deinit_ret = -1
               /\ iter_ctx.deinit_error = UnmappedPathError

\* C21 witness: an iteration over shared/z/, which no map matches, was
\* called once and deinitialised with the failure.
C21_Witness ==
    /\ NoMapMatches
    /\ iter_ctx.path = PathZ
    /\ iter_ctx.state = "deinit"
    /\ iter_ctx.last_ret = "FALSE"
    /\ iter_ctx.deinit_ret = -1
    /\ iter_stmts = <<>>

\* The backend's answer to the first statement of the iteration.
FirstResult ==
    sql_statement_query(DbRows(set_maps, db_entries), iter_stmts[1])

ResultDelivered ==
    /\ iter_ctx.state # "none"
    /\ iter_ctx.pending # <<>>
    /\ iter_ctx'.pending = <<>>

\* A step of an iterate call in which a query is submitted and answered
\* before the submitting call returns.
AnsweredInline ==
    /\ iter_ctx.state = "open"
    /\ DICT_ITERATE_FLAG_ASYNC \in iter_ctx.flags
    /\ Len(iter_stmts') > Len(iter_stmts)
    /\ iter_ctx'.pending = <<>>

\* C23: in asynchronous iteration a result delivered after iterate_deinit
\* is dropped: it is not stored in the context, no reference is taken on
\* it and the caller's async_callback is not invoked.  A result delivered
\* before deinit and outside the submitting call is stored and invokes
\* async_callback exactly once; a result delivered inside the submitting
\* call does not invoke it, nor does any other step.
C23_DestroyedDropsResult ==
    [][/\ ResultDelivered =>
              IF iter_ctx.destroyed
              THEN /\ iter_ctx'.result = <<>>
                   /\ iter_ctx'.result_refs = iter_ctx.result_refs
                   /\ iter_ctx'.async_callbacks = iter_ctx.async_callbacks
              ELSE /\ iter_ctx'.result # <<>>
                   /\ iter_ctx'.result_refs = iter_ctx.result_refs + 1
                   /\ iter_ctx'.async_callbacks
                          = iter_ctx.async_callbacks + 1
       /\ AnsweredInline =>
              iter_ctx'.async_callbacks = iter_ctx.async_callbacks
       /\ (iter_ctx.state # "none" /\ ~ResultDelivered) =>
              iter_ctx'.async_callbacks = iter_ctx.async_callbacks]_vars

\* C23 witness: an asynchronous iteration was deinitialised while its
\* query was outstanding, and the result delivered afterwards was dropped.
C23_Witness ==
    /\ iter_ctx.state = "deinit"
    /\ DICT_ITERATE_FLAG_ASYNC \in iter_ctx.flags
    /\ Len(iter_stmts) = 1
    /\ iter_ctx.has_more
    /\ iter_ctx.pending = <<>>
    /\ iter_ctx.result = <<>>
    /\ iter_ctx.result_refs = 0
    /\ iter_ctx.async_callbacks = 0

\* C24: the reference count of the iteration context's pool always equals
\* 1 while iterate_deinit has not run, plus the number of outstanding
\* query/more callbacks.  So the pool is released only after both the
\* deinit and every outstanding callback, in either order; a callback is
\* never outstanding on a released pool; and once released the context is
\* not touched again (it is released once).
C24_PoolReleasedOnce ==
    /\ [](iter_ctx.state # "none" =>
             /\ iter_ctx.pool_refs
                    = (IF iter_ctx.state = "open" THEN 1 ELSE 0)
                      + Len(iter_ctx.pending)
             /\ iter_ctx.pending # <<>> => iter_ctx.pool_refs >= 1
             /\ iter_ctx.pool_refs = 0 <=>
                    (iter_ctx.state = "deinit" /\ iter_ctx.pending = <<>>))
    /\ [][(iter_ctx.state # "none" /\ iter_ctx.pool_refs = 0) =>
              UNCHANGED iter_ctx]_vars

\* C24 witness: iterate_deinit has run while the callback of a
\* sql_result_more is outstanding: the pool is still referenced once.
C24_Witness ==
    /\ iter_ctx.state = "deinit"
    /\ iter_ctx.pending # <<>>
    /\ iter_ctx.pending[1].more # <<>>
    /\ iter_ctx.pool_refs = 1

\* The maps of the list that declare an expire_field, in list order.
ExpiringMaps == SelectSeq(set_maps, LAMBDA m : m.expire_field # NoField)

\* C25: expire_scan returns a positive value iff at least one map declares
\* an expire_field and every per-map DELETE transaction committed, 0 iff
\* no map declares an expire_field, and a negative value iff a backend
\* commit failed.  Every transaction it opens holds a single statement,
\* the DELETE of one expiring map, and the transactions are those of the
\* expiring maps in list order, one each: all of them when no commit
\* failed, and up to the failed one otherwise.
C25_ExpireScanResult ==
    \A s \in 1..Len(expire_scans) :
        LET r == expire_scans[s]
            n == Len(r.trans)
        IN  /\ r.ret > 0 <=>
                   /\ ExpiringMaps # <<>>
                   /\ n = Len(ExpiringMaps)
                   /\ \A t \in 1..n : r.trans[t].committed
            /\ r.ret = 0 <=> ExpiringMaps = <<>>
            /\ r.ret < 0 <=> \E t \in 1..n : ~r.trans[t].committed
            /\ r.ret \in {-1, 0, 1}
            /\ n <= Len(ExpiringMaps)
            /\ \A t \in 1..n :
                   /\ Len(r.trans[t].stmts) = 1
                   /\ r.trans[t].stmts[1].query
                          = <<"DELETE FROM", ExpiringMaps[t].table, "WHERE",
                              ExpiringMaps[t].expire_field, "<=", "?">>
                   /\ ~r.trans[t].committed => t = n

\* C25 witness: a scan over two expiring maps committed both DELETEs and
\* returned 1.
C25_Witness ==
    /\ Len(ExpiringMaps) = 2
    /\ Len(expire_scans) = 1
    /\ expire_scans[1].ret = 1
    /\ Len(expire_scans[1].trans) = 2

\* The number of "?" placeholders in a statement's text.
RECURSIVE Placeholders(_)
Placeholders(query) ==
    IF query = <<>> THEN 0
    ELSE (IF Head(query) = "?" THEN 1 ELSE 0) + Placeholders(Tail(query))

\* A statement binds as many parameters as its text has placeholders.
ParamsMatchPlaceholders(stmt) == Len(stmt.params) = Placeholders(stmt.query)

\* C26: in every statement handed to the backend by lookup, iterate, set
\* flush, atomic_inc flush and unset, the number of bound parameters equals
\* the number of "?" placeholders in the SQL text.
C26_ParamsMatchPlaceholders ==
    /\ \A i \in 1..Len(sql_stmts) : ParamsMatchPlaceholders(sql_stmts[i])
    /\ \A i \in 1..Len(lookup_stmts) :
           ParamsMatchPlaceholders(lookup_stmts[i])
    /\ \A i \in 1..Len(iter_stmts) : ParamsMatchPlaceholders(iter_stmts[i])

\* C26 witness: a private one-level iteration sent a statement with the
\* LIKE pair written as literals and the username bound.
C26_Witness ==
    \E i \in 1..Len(iter_stmts) :
        /\ \E j \in 1..Len(iter_stmts[i].query) :
               iter_stmts[i].query[j] = "'%/%'"
        /\ Len(iter_stmts[i].params) = 1
        /\ iter_stmts[i].params[1].value_str = op_set.username

\* The tokens of a statement's WHERE clause: what follows WHERE up to an
\* ORDER BY, a LIMIT or the end.
RECURSIVE ClauseUpTo(_)
ClauseUpTo(tokens) ==
    IF tokens = <<>> \/ Head(tokens) \in {"ORDER BY", "LIMIT"} THEN <<>>
    ELSE <<Head(tokens)>> \o ClauseUpTo(Tail(tokens))

WhereClause(query) ==
    ClauseUpTo(SubSeq(query, strchr(query, 1, "WHERE") + 1, Len(query)))

\* tokens is a list of predicates (column, operator, operand), any two
\* adjacent ones separated by AND.
RECURSIVE AndJoined(_)
AndJoined(tokens) ==
    /\ Len(tokens) >= 3
    /\ tokens[1] \notin {"AND", "=", "LIKE", "NOT LIKE"}
    /\ tokens[2] \in {"=", "LIKE", "NOT LIKE"}
    /\ tokens[3] \in {"?", "'%'", "'%/%'"}
    /\ \/ Len(tokens) = 3
       \/ /\ tokens[4] = "AND"
          /\ AndJoined(SubSeq(tokens, 5, Len(tokens)))

WhereAndJoined(stmt) ==
    strchr(stmt.query, 1, "WHERE") # 0 => AndJoined(WhereClause(stmt.query))

\* C27: in every emitted WHERE clause any two adjacent predicates are
\* separated by AND; the username predicate is joined by AND to whatever
\* predicates precede it, also in a one-level private iteration whose
\* path binds no pattern variable.
C27_PredicatesJoinedByAnd ==
    /\ \A i \in 1..Len(sql_stmts) : WhereAndJoined(sql_stmts[i])
    /\ \A i \in 1..Len(lookup_stmts) : WhereAndJoined(lookup_stmts[i])
    /\ \A i \in 1..Len(iter_stmts) : WhereAndJoined(iter_stmts[i])

\* The map a fresh iteration over the path finds first, with the pattern
\* values the path binds.
FirstFound ==
    sql_dict_iterate_find_next_map(
        IterCtx(iter_ctx.path, iter_ctx.flags, 0, 0), set_maps)

\* The map the iteration found last, found again.
LastFound ==
    sql_dict_iterate_find_next_map(
        [IterCtx(iter_ctx.path, iter_ctx.flags, 0, 0)
            EXCEPT !.next_map_idx = iter_ctx.next_map_idx - 1], set_maps)

\* The path binds every pattern field of the map found.
BindsAll(f) ==
    /\ f.map # 0
    /\ Len(f.values) = Len(set_maps[f.map].pattern_fields)

KeyContinuesError ==
    Error("sql dict iterate failed for", iter_ctx.path,
          "Key continues past the matched pattern")

\* C29: the WHERE builder fails with a key-continues-past-pattern error
\* exactly when the path binds every pattern field of the map and the
\* recursion type is not NONE: the iteration carries that error exactly
\* when the map it found last is bound completely and EXACT_KEY is not
\* set.  An iteration without EXACT_KEY over a path that binds all pattern
\* fields of the first matching map therefore ends with the error on its
\* first call, sends no statement, yields no key, and does not go on to a
\* later map.
C29_KeyContinuesPastPattern ==
    /\ (iter_ctx.state # "none" /\ iter_ctx.next_map_idx > 0
            /\ iter_ctx.panic = "") =>
           /\ LastFound.map = iter_ctx.next_map_idx
           /\ iter_ctx.error = KeyContinuesError
                  <=> /\ BindsAll(LastFound)
                      /\ iterate_recurse_type(iter_ctx.flags) # "NONE"
    /\ (iter_ctx.state # "none" /\ iter_ctx.last_ret # "NONE"
            /\ BindsAll(FirstFound)
            /\ DICT_ITERATE_FLAG_EXACT_KEY \notin iter_ctx.flags) =>
           /\ iter_ctx.last_ret = "FALSE"
           /\ ~iter_ctx.has_more
           /\ iter_ctx.error = KeyContinuesError
           /\ iter_stmts = <<>>
           /\ iter_out = <<>>
           /\ iter_ctx.pending = <<>>
           /\ iter_ctx.next_map_idx = FirstFound.map
           /\ iter_ctx.state = "deinit" =>
                  /\ iter_ctx.deinit_ret = -1
                  /\ iter_ctx.deinit_error = KeyContinuesError

\* C29 witness: a one-level iteration whose first matching map has its
\* only pattern field bound by the path, with later maps in the list and
\* rows in the tables, ended with the error and yielded nothing.
C29_Witness ==
    /\ iter_ctx.state # "none"
    /\ BindsAll(FirstFound)
    /\ FirstFound.map < Len(set_maps)
    /\ iter_ctx.flags = {}
    /\ iter_ctx.last_ret = "FALSE"
    /\ iter_ctx.error = KeyContinuesError
    /\ db_entries # <<>>
    /\ iter_out = <<>>

\* The value of the last set(key, ...) call of the transaction, <<>> for
\* none.
LastSetOf(key) ==
    IF \A i \in 1..Len(calls) : ~(calls[i].op = "set" /\ calls[i].key = key)
    THEN <<>>
    ELSE <<calls[CHOOSE i \in 1..Len(calls) :
                    /\ calls[i].op = "set" /\ calls[i].key = key
                    /\ \A j \in (i + 1)..Len(calls) :
                           ~(calls[j].op = "set" /\ calls[j].key = key)].str>>

\* Every expire timestamp the transaction wrote lies in the future.
NothingWrittenExpired ==
    \A i \in 1..Len(sql_stmts) : \A j \in 1..Len(sql_stmts[i].params) :
        sql_stmts[i].params[j].value_type = "UINT" =>
            sql_stmts[i].params[j].value_int64 > ioloop_time

\* C28: after set(k, v) in a committed transaction, lookup(k) returns v,
\* provided the row has not expired, whatever set calls preceded it in the
\* transaction: sets coalesced with it, an earlier set of the same key.
C28_SetThenLookupRoundTrip ==
    (/\ lookup_results # <<>>
     /\ sql_state = "committed"
     /\ expire_scans = <<>>
     /\ LastSetOf(lookup_key) # <<>>
     /\ NothingWrittenExpired) =>
        /\ lookup_results[1].ret = 1
        /\ lookup_results[1].values = <<SqlStr(LastSetOf(lookup_key)[1])>>

\* row is one the lookup/iteration expiry filter treats as expired at now.
FilterExpired(row, now) ==
    \E m \in 1..Len(Maps) :
        /\ Maps[m].table = row.table
        /\ Maps[m].expire_field # NoField
        /\ ~expire_row_kept(row.cols[Maps[m].expire_field],
               str_to_time(row.cols[Maps[m].expire_field].str), now)

\* C30: expire_scan deletes only rows that the lookup/iteration expiry
\* filter also treats as expired at that moment; a row written by set with
\* expire_secs > 0 is still returned by lookup after an expire_scan that
\* ran before its expiry time.
C30_ScanDeletesOnlyExpired ==
    /\ [][expire_scans' # expire_scans =>
             \A r \in 1..Len(db_rows) :
                 (\A k \in 1..Len(db_rows') : db_rows'[k] # db_rows[r])
                     => FilterExpired(db_rows[r], ioloop_time)]_vars
    /\ []((/\ lookup_results # <<>>
           /\ sql_state = "committed"
           /\ expire_scans # <<>>
           /\ lookup_key = KeyCount1
           /\ LastSetOf(KeyCount1) # <<>>
           /\ op_set.expire_secs > 0
           /\ NothingWrittenExpired) =>
              /\ lookup_results[1].ret = 1
              /\ lookup_results[1].values
                     = <<SqlStr(LastSetOf(KeyCount1)[1])>>)

\* "c1 = ? , c2 = ? ..." for the columns cols.
set_assign_list(cols) == set_assign_loop(cols, 1)

\* The upsert part of an INSERT: what follows "VALUES ( ?, ... )".
UpsertTail(stmt) ==
    InsertTail(stmt.query, TokenPos(stmt.query, ")"),
        Len(InsertColumns(stmt.query, TokenPos(stmt.query, ")"))))

\* The columns ON CONFLICT names for a batch whose first key is key: the
\* pattern columns, and the username column for a private key.
ConflictColumns(key) ==
    FieldNamesFrom(Maps[FoundMap[key].map], 0)
    \o (IF IsPrivate(key)
        THEN <<Maps[FoundMap[key].map].username_field>> ELSE <<>>)

\* The SET list of an upsert for the run grp of the call log: the value
\* column of each call in call order, then the expire column if the batch
\* writes one.
UpsertSetList(log, grp) ==
    set_assign_list(
        [j \in 1..Len(grp) |-> ValueColumn(log[grp[j]])]
        \o (IF Maps[FoundMap[log[grp[1]].key].map].expire_field # NoField
               /\ op_set.expire_secs > 0
            THEN <<Maps[FoundMap[log[grp[1]].key].map].expire_field>>
            ELSE <<>>))

\* The parameters the update part of an upsert binds for the run grp: the
\* value of each call in call order, then the expire timestamp.
UpsertParams(log, grp) ==
    [j \in 1..Len(grp) |-> ValueParam(log[grp[j]])]
    \o (IF Maps[FoundMap[log[grp[1]].key].map].expire_field # NoField
           /\ op_set.expire_secs > 0
        THEN <<Param("UINT", <<>>, ioloop_time + op_set.expire_secs)>>
        ELSE <<>>)

\* stmt, the INSERT of the run grp, has the form the backend flags choose.
FormByFlags(stmt, log, grp) ==
    LET cols == Len(InsertColumns(stmt.query, TokenPos(stmt.query, ")")))
        bound == SubSeq(stmt.params, cols + 1, Len(stmt.params))
    IN  IF SQL_DB_FLAG_ON_DUPLICATE_KEY \in db_flags
        THEN /\ UpsertTail(stmt) = <<"ON DUPLICATE KEY UPDATE">>
                                      \o UpsertSetList(log, grp)
             /\ bound = UpsertParams(log, grp)
        ELSE IF SQL_DB_FLAG_ON_CONFLICT_DO \in db_flags
        THEN /\ UpsertTail(stmt) =
                    <<"ON CONFLICT", "(">>
                    \o CommaJoin(ConflictColumns(log[grp[1]].key))
                    \o <<")", "DO UPDATE SET">> \o UpsertSetList(log, grp)
             /\ bound = UpsertParams(log, grp)
        ELSE /\ UpsertTail(stmt) = <<>>
             /\ bound = <<>>

\* C31: a flushed set batch is an INSERT whose form the backend flags alone
\* choose: ON DUPLICATE KEY UPDATE when advertised (also next to ON
\* CONFLICT), otherwise ON CONFLICT (pattern columns, username column for a
\* private key) DO UPDATE SET when advertised, otherwise a plain INSERT.  In
\* the upsert forms every staged value is bound a second time in the update
\* part in the same order; in the plain form each value is bound once.
C31_UpsertFormByFlags ==
    (backend_commits > 0) =>
        /\ Len(sql_stmts) = Len(Groups(calls))
        /\ \A g \in 1..Len(sql_stmts) :
              calls[Groups(calls)[g][1]].op = "set" =>
                  /\ Carries(sql_stmts[g], calls, Groups(calls)[g])
                  /\ FormByFlags(sql_stmts[g], calls, Groups(calls)[g])

\* C31 witness: a backend advertising both upsert forms committed a batch
\* of two coalesced sets as one ON DUPLICATE KEY UPDATE statement binding
\* both values twice.
C31_Witness ==
    /\ db_flags = {SQL_DB_FLAG_ON_DUPLICATE_KEY, SQL_DB_FLAG_ON_CONFLICT_DO}
    /\ sql_state = "committed"
    /\ Len(calls) = 2
    /\ calls[1] = Call("set", KeyBytes1, <<"5">>, 0)
    /\ calls[2] = Call("set", KeyCount1, <<"x">>, 0)
    /\ Len(sql_stmts) = 1
    /\ TokenPos(sql_stmts[1].query, "ON DUPLICATE KEY UPDATE") # 0
    /\ TokenPos(sql_stmts[1].query, "ON CONFLICT") = 0

\* The 1-based index of the map whose table a SELECT reads.
MapOfStmt(stmt) ==
    CHOOSE m \in 1..Len(set_maps) :
        set_maps[m].table = stmt.query[TokenPos(stmt.query, "FROM") + 1]

SyncIteration ==
    /\ iter_ctx.state = "open"
    /\ DICT_ITERATE_FLAG_ASYNC \notin iter_ctx.flags

\* C32: in synchronous mode repeated iterate calls eventually return FALSE
\* with has_more false (unless the host deinitialises the iteration
\* first); during one iteration the maps are queried in strictly
\* increasing list order, each at most once, and next_map_idx never
\* decreases.
C32_IterationTerminates ==
    /\ SyncIteration ~>
           \/ iter_ctx.state = "deinit"
           \/ /\ iter_ctx.state = "open"
              /\ iter_ctx.last_ret = "FALSE"
              /\ ~iter_ctx.has_more
              /\ iter_ctx.panic = ""
    /\ [](\A i, j \in 1..Len(iter_stmts) :
              i < j => MapOfStmt(iter_stmts[i]) < MapOfStmt(iter_stmts[j]))
    /\ [][(iter_ctx.state = "open" /\ iter_ctx'.state = "open") =>
              iter_ctx'.next_map_idx >= iter_ctx.next_map_idx]_vars

\* C32 witness: a synchronous iteration queried two maps in list order,
\* yielded a key and returned FALSE with has_more false.
C32_Witness ==
    /\ SyncIteration
    /\ Len(iter_stmts) = 2
    /\ MapOfStmt(iter_stmts[1]) < MapOfStmt(iter_stmts[2])
    /\ iter_out # <<>>
    /\ iter_ctx.last_ret = "FALSE"
    /\ ~iter_ctx.has_more
\* The LIMIT clause a query ends with, <<>> if it has none.
LimitClause(query) ==
    IF TokenPos(query, "LIMIT") = 0 THEN <<>>
    ELSE SubSeq(query, TokenPos(query, "LIMIT"), Len(query))

\* The LIMIT clause of a query built after n rows were returned.
RemainingLimit(max_rows, n) ==
    IF max_rows > 0 THEN <<"LIMIT">> \o DecimalString(max_rows - n)
    ELSE <<>>

\* C33: every query an iterate call sends ends with LIMIT max_rows minus
\* the number of rows returned before the call (no LIMIT when max_rows is
\* 0); with a finite max_rows no more than max_rows keys are ever yielded
\* and the assertion row_count < max_rows never fails.
C33_LimitIsRemainingRows ==
    /\ [][iter_ctx.state = "open" =>
              \A k \in (Len(iter_stmts) + 1)..Len(iter_stmts') :
                  LimitClause(iter_stmts'[k].query)
                      = RemainingLimit(iter_ctx.max_rows, Len(iter_out))]_vars
    /\ [](iter_ctx.state # "none" =>
              /\ iter_ctx.max_rows > 0 => Len(iter_out) <= iter_ctx.max_rows
              /\ iter_ctx.row_count = Len(iter_out)
              /\ iter_ctx.panic # "ctx->ctx.row_count < ctx->ctx.max_rows")

\* C33 witness: with max_rows 2 the first map gave one row and the second
\* map was queried with LIMIT 1 and gave the second.
C33_Witness ==
    /\ iter_ctx.state = "open"
    /\ iter_ctx.max_rows = 2
    /\ Len(iter_stmts) = 2
    /\ LimitClause(iter_stmts[1].query) = <<"LIMIT", "2">>
    /\ LimitClause(iter_stmts[2].query) = <<"LIMIT", "1">>
    /\ Len(iter_out) = 2
    /\ iter_out[1].map # iter_out[2].map

\* The first map iteration finds for the path, 0 for none.
FirstMatching ==
    sql_dict_iterate_find_next_map([iter_ctx EXCEPT !.next_map_idx = 0],
                                   set_maps).map

\* The map iteration would find next, 0 for none.
NextMatching == sql_dict_iterate_find_next_map(iter_ctx, set_maps).map

\* The host may call iterate and the driver will find the result of the
\* current map exhausted: sql_dict_result_next_row returns 0.
ResultExhausted ==
    /\ iter_ctx.state = "open"
    /\ iter_ctx.panic = ""
    /\ iter_ctx.error = NULL
    /\ ~(iter_ctx.max_rows > 0 /\ iter_ctx.row_count >= iter_ctx.max_rows)
    /\ iter_ctx.iter_query_sent
    /\ iter_ctx.result # <<>>
    /\ sql_dict_result_next_row(set_maps[iter_ctx.map], iter_ctx.result[1],
                                ioloop_time, iter_ctx.result[1].pos + 1).ret
           = 0

\* C34: with EXACT_KEY only the first matching map is ever queried, and
\* the call that finds its result exhausted returns FALSE and sends
\* nothing; without EXACT_KEY the call that finds a result exhausted goes
\* on to the next matching map in the same call and, unless building its
\* query fails, queries it.
C34_ExactKeyStopsAtFirstMap ==
    /\ [](iter_ctx.state # "none"
              /\ DICT_ITERATE_FLAG_EXACT_KEY \in iter_ctx.flags =>
              /\ Len(iter_stmts) <= 1
              /\ \A k \in 1..Len(iter_stmts) :
                     MapOfStmt(iter_stmts[k]) = FirstMatching)
    /\ [][ResultExhausted /\ iter_ctx'.state = "open" =>
              IF DICT_ITERATE_FLAG_EXACT_KEY \in iter_ctx.flags
              THEN /\ iter_ctx'.last_ret = "FALSE"
                   /\ iter_stmts' = iter_stmts
                   /\ iter_ctx'.next_map_idx = iter_ctx.next_map_idx
              ELSE NextMatching # 0 =>
                   /\ iter_ctx'.next_map_idx >= NextMatching
                   /\ iter_ctx'.error = NULL /\ iter_ctx'.panic = "" =>
                          /\ Len(iter_stmts') > Len(iter_stmts)
                          /\ MapOfStmt(iter_stmts'[Len(iter_stmts) + 1])
                                 = NextMatching]_vars

\* C34 witness: an EXACT_KEY iteration returned FALSE on its exhausted
\* result with one query sent, although a later map matches the path.
C34_Witness ==
    /\ ResultExhausted
    /\ DICT_ITERATE_FLAG_EXACT_KEY \in iter_ctx.flags
    /\ iter_ctx.last_ret = "FALSE"
    /\ Len(iter_stmts) = 1
    /\ NextMatching # 0
    /\ iter_out # <<>>

\* The stored row the entry with index e is kept in.
RowOfEntry(e) ==
    DbRows(set_maps, db_entries)[CHOOSE r \in 1..Len(db_entries) :
                                    db_entries[r] = e]

\* The pattern from the 1-based position p on with each `$` replaced, in
\* order, by the decoded columns cols of the pattern fields from the
\* 1-based index f on.
RECURSIVE PatternFilled(_, _, _, _)
PatternFilled(map, cols, p, f) ==
    IF p > Len(map.pattern) THEN <<>>
    ELSE IF map.pattern[p] # "$"
    THEN <<map.pattern[p]>> \o PatternFilled(map, cols, p + 1, f)
    ELSE IF f > Len(map.pattern_fields) THEN <<"$">>
    ELSE sql_dict_result_unescape(map.pattern_fields[f].value_type,
                                  cols[map.pattern_fields[f].name]).str
         \o PatternFilled(map, cols, p + 1, f + 1)

\* The key the context c stands for on a row with the columns cols.
KeyOfRow(c, map, cols) ==
    SubSeq(c.path, 1, c.key_prefix_len)
    \o (IF c.key_prefix_len > 0 /\ c.path[c.key_prefix_len] # "/"
        THEN <<"/">> ELSE <<>>)
    \o PatternFilled(map, cols, c.pattern_prefix_len + 1,
                     c.sql_fields_start_idx + 1)

\* The key just yielded is built from the pattern fields of its row and
\* matches the pattern of its map.
YieldedKeyBuilt(c, o) ==
    /\ o.key = KeyOfRow(c, set_maps[o.map], RowOfEntry(o.entry).cols)
    /\ dict_sql_map_match(set_maps[o.map], o.key, FALSE, FALSE).ret

\* C35: every key iterate yields is the first key_prefix_len characters
\* of the path, a `/` unless they are empty or end in one, and the
\* pattern from pattern_prefix_len on with each `$` replaced in order by
\* the row's pattern-field columns from sql_fields_start_idx on; the key
\* matches the pattern of the selected map exactly.
C35_YieldedKeyFromPatternFields ==
    [][Len(iter_out') = Len(iter_out) + 1 =>
           YieldedKeyBuilt(iter_ctx', iter_out'[Len(iter_out')])]_vars

\* The same for the maps without an expire column only: this holds.
KeysBuiltWithoutExpireColumn ==
    [][(/\ Len(iter_out') = Len(iter_out) + 1
        /\ set_maps[iter_out'[Len(iter_out')].map].expire_field = NoField) =>
           YieldedKeyBuilt(iter_ctx', iter_out'[Len(iter_out')])]_vars

\* The match m of path against pattern read the whole path and left a
\* part of the pattern unread.
PathEndedFirst(pattern, path, m) ==
    m.path_len = Len(path) /\ m.pat_len < Len(pattern)

\* The unread pattern starts at the pattern start or directly after a '/'.
UnreadAfterSlash(pattern, m) == m.pat_len = 0 \/ pattern[m.pat_len] = "/"

\* The unread pattern starts with a variable and has no '/'.
UnreadIsVariable(pattern, m) ==
    /\ pattern[m.pat_len + 1] = "$"
    /\ \A i \in (m.pat_len + 1)..Len(pattern) : pattern[i] # "/"

\* How many variables the unread pattern has.
UnreadVariables(pattern, m) ==
    Cardinality({i \in (m.pat_len + 1)..Len(pattern) : pattern[i] = "$"})

\* Whether an iteration over path with the given recursion selects the
\* one map configured.
IterationSelects(path, recurse) ==
    sql_dict_iterate_find_next_map(
        IterCtx(path, IF recurse THEN {DICT_ITERATE_FLAG_RECURSE} ELSE {},
                0, 0),
        set_maps).map # 0

\* C36: matching for iteration (partial_ok), a path that ends before the
\* pattern is accepted exactly if the unread pattern starts at the pattern
\* start or after a '/' and, when not recursing, starts with a `$` and has
\* no further '/'; a map selected for a non-recursive iteration then has
\* exactly one variable in its unread pattern and at most one pattern
\* field more than the path binds.
C36_PartialMatchForIteration ==
    \A k \in 1..Len(match_result) :
        (/\ "partial_ok" \in DOMAIN match_result[k]
         /\ match_result[k].partial_ok
         /\ PathEndedFirst(set_maps[1].pattern, match_path,
                           match_result[k].match)) =>
            /\ match_result[k].match.ret <=>
                   /\ UnreadAfterSlash(set_maps[1].pattern,
                                       match_result[k].match)
                   /\ \/ match_result[k].recurse
                      \/ UnreadIsVariable(set_maps[1].pattern,
                                          match_result[k].match)
            /\ (/\ ~match_result[k].recurse
                /\ IterationSelects(match_path, FALSE)) =>
                   /\ match_result[k].match.ret
                   /\ UnreadVariables(set_maps[1].pattern,
                                      match_result[k].match) = 1
                   /\ Len(set_maps[1].pattern_fields)
                          <= Len(match_result[k].match.values) + 1

\* C36 witness: a non-recursive iteration selected a two-variable map on
\* a path that binds the first variable and ends before the second.
C36_Witness ==
    /\ Len(match_result) = 1
    /\ "partial_ok" \in DOMAIN match_result[1]
    /\ match_result[1].partial_ok
    /\ ~match_result[1].recurse
    /\ PathEndedFirst(set_maps[1].pattern, match_path, match_result[1].match)
    /\ match_result[1].match.ret
    /\ IterationSelects(match_path, FALSE)
    /\ Len(set_maps[1].pattern_fields) = 2
    /\ Len(match_result[1].match.values) = 1

\* C37: every commit call ends with the caller's callback called once and
\* the context freed, within the call except for a commit sent to the
\* backend asynchronously: then nothing is reported and the context stays
\* until the backend reports, and the backend's report calls the callback
\* once and frees the context.  Nothing is reported or freed again later.
C37_CommitCallbackOnceFreedOnce ==
    /\ [](Len(commit_results) <= 1)
    /\ [](ctx_state = "commit_wait" =>
              /\ commit_results = <<>>
              /\ async_callback = "set"
              /\ sql_state = "commit_pending")
    /\ [][(\E async \in BOOLEAN : Commit(async)) =>
              IF ctx_state' = "commit_wait"
              THEN /\ commit_results' = <<>>
                   /\ backend_commits' = backend_commits + 1
              ELSE /\ ctx_state' = "freed"
                   /\ Len(commit_results') = 1]_vars
    /\ [][CommitCallback =>
              /\ ctx_state' = "freed"
              /\ Len(commit_results') = 1]_vars
    /\ [][ctx_state = "freed" =>
              /\ ctx_state' = "freed"
              /\ commit_results' = commit_results]_vars
    /\ (ctx_state = "commit_wait") ~>
           (ctx_state = "freed" /\ Len(commit_results) = 1)

\* C37 witness: an asynchronous commit went to the backend, the backend
\* reported a failure, and the callback was called once and the context
\* freed.
C37_Witness ==
    /\ async_callback = "set"
    /\ backend_commits = 1
    /\ sql_state = "commit_failed"
    /\ ctx_state = "freed"
    /\ Len(commit_results) = 1

\* C38: the assertion i > 0 of the iteration query builder never fails.
C38_AssertFieldLeft ==
    iter_ctx.state # "none" => iter_ctx.panic # "i > 0"

\* No value column is named twice in the column list names.
ValueColumnsDistinct(names) ==
    \A i, j \in 1..Len(names) :
        (i # j /\ names[i] \in ValueColumns) => names[i] # names[j]

\* The positions of the value columns assigned in the SET list of an
\* UPDATE.
AssignedAt(query) ==
    { i \in 1..(Len(query) - 1) :
        query[i] \in ValueColumns /\ query[i + 1] = "=" }

\* C39: no flushed statement names a value column twice, neither in the
\* column list of an INSERT nor in the SET list of an UPDATE.
C39_ValueColumnsDistinct ==
    \A s \in 1..Len(sql_stmts) :
        /\ sql_stmts[s].query[1] = "INSERT INTO" =>
               ValueColumnsDistinct(
                   InsertColumns(sql_stmts[s].query,
                                 TokenPos(sql_stmts[s].query, ")")))
        /\ sql_stmts[s].query[1] = "UPDATE" =>
               \A i, j \in AssignedAt(sql_stmts[s].query) :
                   i # j => sql_stmts[s].query[i] # sql_stmts[s].query[j]

\* ---------------------------------------------------------------------
\* The SCRAM username of the auth server (auth-scram-server.c)
\* ---------------------------------------------------------------------

\* The longest escaped name tried.
MaxNameLen == 6

\* The byte that ends a C string.
NUL == "\\0"

\* An ordinary character, the escape character and the characters of the
\* two escapes.  The names have no comma: the callers cut the message at
\* the commas before they unescape a field.
NameChars == {"a", "=", "2", "C", "3", "D"}

EscapedNames == {<<>>} \cup Strings(NameChars, MaxNameLen)

\* in[i] of the C string: the text, then its NUL; junk is what a read
\* behind the NUL would find.
CharAt(in, i, junk) ==
    IF i <= Len(in) THEN in[i] ELSE IF i = Len(in) + 1 THEN NUL ELSE junk

\* The larger of two indexes.
Highest(a, b) == IF a >= b THEN a ELSE b

\* The loop of scram_unescape_username where an escape moves the cursor by
\* one character only.
RECURSIVE unescape_loop_no_skip(_, _, _, _, _)
unescape_loop_no_skip(in, i, out, top, junk) ==
    IF CharAt(in, i, junk) = NUL
    THEN [ret |-> "str", out |-> out, top |-> Highest(top, i)]
    ELSE IF in[i] = ","
    THEN [ret |-> "panic", out |-> out, top |-> Highest(top, i)]
    ELSE IF in[i] = "="
    THEN IF CharAt(in, i + 1, junk) = "2" /\ CharAt(in, i + 2, junk) = "C"
         THEN unescape_loop_no_skip(in, i + 1, Append(out, ","),
                                    Highest(top, i + 2), junk)
         ELSE IF CharAt(in, i + 1, junk) = "3"
                 /\ CharAt(in, i + 2, junk) = "D"
         THEN unescape_loop_no_skip(in, i + 1, Append(out, "="),
                                    Highest(top, i + 2), junk)
         ELSE [ret |-> "NULL", out |-> out,
               top |-> Highest(top,
                               IF CharAt(in, i + 1, junk) \in {"2", "3"}
                               THEN i + 2 ELSE i + 1)]
    ELSE unescape_loop_no_skip(in, i + 1, Append(out, in[i]),
                               Highest(top, i), junk)

\* for (; *in != '\0'; in++) of scram_unescape_username, from the cursor
\* i on: ret is "str" (str_c(out) is returned), "NULL", or "panic" (the
\* i_assert on a comma); top is the highest index that was read.  The
\* second character of an escape is read only when the first one matched
\* (&& does not evaluate its right side otherwise).
RECURSIVE unescape_loop(_, _, _, _, _)
unescape_loop(in, i, out, top, junk) ==
    IF CharAt(in, i, junk) = NUL
    THEN [ret |-> "str", out |-> out, top |-> Highest(top, i)]
    ELSE IF in[i] = ","
    THEN [ret |-> "panic", out |-> out, top |-> Highest(top, i)]
    ELSE IF in[i] = "="
    THEN IF CharAt(in, i + 1, junk) = "2" /\ CharAt(in, i + 2, junk) = "C"
         THEN unescape_loop(in, i + 3, Append(out, ","),
                            Highest(top, i + 2), junk)
         ELSE IF CharAt(in, i + 1, junk) = "3"
                 /\ CharAt(in, i + 2, junk) = "D"
         THEN unescape_loop(in, i + 3, Append(out, "="),
                            Highest(top, i + 2), junk)
         ELSE [ret |-> "NULL", out |-> out,
               top |-> Highest(top,
                               IF CharAt(in, i + 1, junk) \in {"2", "3"}
                               THEN i + 2 ELSE i + 1)]
    ELSE unescape_loop(in, i + 1, Append(out, in[i]), Highest(top, i), junk)

\* scram_unescape_username(in)
scram_unescape_username(in, junk) == unescape_loop(in, 1, <<>>, 0, junk)

\* The username field of parse_scram_client_first: "n=" saslname.
parse_username(field, junk) ==
    IF Len(field) >= 2 /\ field[1] = "n" /\ field[2] = "="
    THEN LET r == scram_unescape_username(SubSeq(field, 3, Len(field)), junk)
         IN  IF r.ret = "NULL"
             THEN [ok |-> FALSE, error |-> "Username escaping is invalid",
                   unescaped |-> r]
             ELSE [ok |-> r.ret = "str", error |-> "", unescaped |-> r]
    ELSE [ok |-> FALSE, error |-> "Invalid username field",
          unescaped |-> [ret |-> "none", out |-> <<>>, top |-> 0]]

InitScram ==
    /\ db_flags = {}
    /\ op_set \in ReadSettings
    /\ TxnInit
    /\ MatchIdle
    /\ LookupIdle
    /\ IterIdle
    /\ StoreIdle
    /\ scram_in \in EscapedNames
    /\ scram_out = <<>>

\* The client-first message arrives and its username field is parsed.
ParseUsername(junk) ==
    /\ scram_out = <<>>
    /\ scram_out' = <<parse_username(<<"n", "=">> \o scram_in, junk)>>
    /\ UNCHANGED <<txn_vars, match_vars, lookup_vars, iter_vars, store_vars,
                   scram_in>>

NextScram == \E junk \in NameChars : ParseUsername(junk)

SpecScram == InitScram /\ [][NextScram]_vars

\* The saslname escaping of RFC 5802: a comma is written "=2C" and an
\* equals sign "=3D".
RECURSIVE SaslEscaped(_)
SaslEscaped(name) ==
    IF name = <<>> THEN <<>>
    ELSE (IF name[1] = "," THEN <<"=", "2", "C">>
          ELSE IF name[1] = "=" THEN <<"=", "3", "D">>
          ELSE <<name[1]>>) \o SaslEscaped(Tail(name))

\* Some "=" of the name is followed by something else than 2C or 3D.
BadEscape(in) ==
    \E i \in 1..Len(in) :
        /\ in[i] = "="
        /\ ~(/\ i + 2 <= Len(in)
             /\ <<in[i + 1], in[i + 2]>> \in {<<"2", "C">>, <<"3", "D">>})

\* C40: scram_unescape_username of a comma-free name returns the name with
\* every "=2C" replaced by "," and every "=3D" by "=": written back in the
\* saslname escaping the result is the input again.  An "=" followed by
\* anything else, the end of the string included, makes it return NULL
\* and the client-first message is rejected; no other name is rejected.
\* It reads no character behind the terminating NUL and its assertion on
\* a comma never fails.
C40_UnescapeUsername ==
    scram_out # <<>> =>
        LET p == scram_out[1]
            r == p.unescaped
        IN  /\ r.ret \in {"str", "NULL"}
            /\ r.ret = "NULL" <=> BadEscape(scram_in)
            /\ r.ret = "NULL" =>
                   ~p.ok /\ p.error = "Username escaping is invalid"
            /\ r.ret = "str" =>
                   /\ p.ok
                   /\ SaslEscaped(r.out) = scram_in
                   /\ \A i \in 1..Len(r.out) : r.out[i] # NUL
            /\ r.top <= Len(scram_in) + 1

\* C40 witness: "=2C=3D" was unescaped to ",=".
C40_Witness ==
    /\ scram_in = <<"=", "2", "C", "=", "3", "D">>
    /\ scram_out # <<>>
    /\ scram_out[1].unescaped.ret = "str"
    /\ scram_out[1].unescaped.out = <<",", "=">>

====
